---- MODULE Spec2Model ----
(***************************************************************************)
(* Model of the prior-authorization processing pipeline                    *)
(* (src/src/pipeline/paprocessing/run_deprecated.py, PAProcessingPipeline) *)
(*                                                                         *)
(* Two specifications share the module:                                    *)
(*   SpecV : validate_with_field_level_correction applied to bounded       *)
(*           schemas and raw mappings (a pure function of its inputs);     *)
(*   Spec  : one pipeline instance executing run(), one suspension point   *)
(*           (external call) per action.                                   *)
(***************************************************************************)
EXTENDS Naturals, Integers, Sequences, FiniteSets, TLC

VARIABLES
    \* ---- schema validator (SpecV) ----
    vschema,        \* model_class.model_fields: sequence of field descriptors
    vraw,           \* data: external key -> value (NoneV = key absent)
    vstate,         \* "declaring" | "returned" | "raised" | "attribute_error"
    vdata,          \* validated_data built by the per-field loop
    vfailed,        \* field names whose single-field validation failed (warnings)
    vresult,        \* the instance returned (field name -> value), <<>> if none
    \* ---- pipeline instance (Spec) ----
    pc,             \* position of run()
    caseId,         \* self.caseId
    results,        \* self.results: case id -> (key -> value)
    conversation_history, \* self.conversation_history: sequence of step names
    ext,            \* per extraction path: "idle" | "running" | "ok" | "failed"
    extRet,         \* per extraction path: the record returned to extract_all_data
    loc,            \* run(): use_o1, policy_location, attempt, hits, raisedBy
    callLog,        \* external calls issued in this run, in order, with outcome
    flushes,        \* store_output executions in this run: documents handed to upsert
    outcome         \* how this run() ended

vvars == <<vschema, vraw, vstate, vdata, vfailed, vresult>>
pvars == <<pc, caseId, results, conversation_history, ext, extRet, loc,
           callLog, flushes, outcome>>
vars  == <<vschema, vraw, vstate, vdata, vfailed, vresult,
           pc, caseId, results, conversation_history, ext, extRet, loc,
           callLog, flushes, outcome>>

(***************************************************************************)
(* Values.  Every Python value is a record [t |-> type tag, v |-> text],   *)
(* so that values of different Python types stay comparable.               *)
(***************************************************************************)
Val(t, v) == [t |-> t, v |-> v]
NoneV     == Val("NoneType", "None")

\* dict.update / {**a, **b}: keys of d win
Merge(m, d) == [k \in (DOMAIN m) \cup (DOMAIN d) |-> IF k \in DOMAIN d THEN d[k] ELSE m[k]]
EmptyMap == << >>

(***************************************************************************)
(* Schema validator                                                        *)
(***************************************************************************)
MaxFields == 2

FieldTypes == {"str", "int", "float", "bool", "list", "dict", "other"}

\* the marker pydantic stores as FieldInfo.default when no default is declared
PydanticUndefined == Val("PydanticUndefinedType", "PydanticUndefined")

\* one value of model_class.model_fields (line 387).  model_fields and
\* model_dump (line 453) are the pydantic 2 interface, whose field descriptor
\* FieldInfo carries annotation, alias, default and default_factory; it has no
\* outer_type_ attribute, and default is PydanticUndefined unless declared.
FieldDesc(name, alias, type, default, factory, allow_none) ==
    [name |-> name, alias |-> alias, annotation |-> type,
     default |-> default, default_factory |-> factory, allow_none |-> allow_none]

\* a declared static default of the field's own type
StaticDefault(type) == Val(type, "default")
FactoryNames == {"None", "list"}

\* model_field.default_factory()
CallFactory(factory) == Val(factory, "factory()")

NamePool  == <<"f1", "f2", "f3", "f4">>
AliasPool == <<"Alias 1", "", "", "">>

\* the descriptors a schema may declare at position i: a required field or a
\* statically defaulted field of each type, Optional[str] = None,
\* Optional[str] with a default, str = None, and a list built by a factory
FieldDescsAt(i) ==
    { FieldDesc(NamePool[i], AliasPool[i], t, PydanticUndefined, "None", FALSE) :
        t \in FieldTypes } \cup
    { FieldDesc(NamePool[i], AliasPool[i], t, StaticDefault(t), "None", FALSE) :
        t \in FieldTypes } \cup
    { FieldDesc(NamePool[i], AliasPool[i], "str", NoneV, "None", TRUE),
      FieldDesc(NamePool[i], AliasPool[i], "str", StaticDefault("str"), "None", TRUE),
      FieldDesc(NamePool[i], AliasPool[i], "str", NoneV, "None", FALSE),
      FieldDesc(NamePool[i], AliasPool[i], "list", PydanticUndefined, "list", FALSE) }

\* expected_alias = model_field.alias or field_name
ExpectedAlias(fd) == IF fd.alias # "" THEN fd.alias ELSE fd.name

\* data.get(expected_alias, None)
DataGet(data, key) == IF key \in DOMAIN data THEN data[key] ELSE NoneV

\* a value the raw mapping may hold for a field of the given type
GoodInput(t) == Val(t, "input")
BadInput     == Val("bytes", "input")

\* does pydantic accept value for the declared type of fd
TypeAccepts(fd, value) ==
    \/ value.t = fd.annotation
    \/ fd.allow_none /\ value = NoneV

HasDefault(fd) == fd.default # PydanticUndefined \/ fd.default_factory # "None"

\* the value a field takes when model_class(**kwargs) is not given it
ConstructorDefault(fd) ==
    IF fd.default # PydanticUndefined THEN fd.default
    ELSE CallFactory(fd.default_factory)

SchemaNames(schema) == { schema[i].name : i \in DOMAIN schema }
FieldOf(schema, name) == CHOOSE fd \in { schema[i] : i \in DOMAIN schema } : fd.name = name

\* model_class(**kwargs) raises ValidationError: a given value of the wrong
\* type, or a field that is neither given nor defaulted
ConstructFails(schema, kwargs) ==
    \E i \in DOMAIN schema :
        IF schema[i].name \in DOMAIN kwargs
        THEN ~TypeAccepts(schema[i], kwargs[schema[i].name])
        ELSE ~HasDefault(schema[i])

\* the instance model_class(**kwargs) builds: exactly the declared fields;
\* kwargs the schema does not declare are ignored
Construct(schema, kwargs) ==
    [n \in SchemaNames(schema) |->
        IF n \in DOMAIN kwargs THEN kwargs[n] ELSE ConstructorDefault(FieldOf(schema, n))]

\* model_class(): the schema's all-default instance
DefaultInstance(schema) == Construct(schema, EmptyMap)

\* lines 405-418: default keyed by the field's type
TypeFallback(field_type) ==
    CASE field_type = "str"   -> Val("str", "Not provided")
      [] field_type = "int"   -> Val("int", "0")
      [] field_type = "float" -> Val("float", "0.0")
      [] field_type = "bool"  -> Val("bool", "False")
      [] field_type = "list"  -> Val("list", "[]")
      [] field_type = "dict"  -> Val("dict", "{}")
      [] OTHER                -> NoneV

\* lines 398-404: the branch that reads model_field.outer_type_ is taken
\* when default is None and default_factory is None
ReadsOuterType(fd) == fd.default = NoneV /\ fd.default_factory = "None"

\* line 404: reading an attribute the descriptor does not have raises
\* AttributeError, which the except clause of line 395 is already handling
SubstituteRaises(fd) == ReadsOuterType(fd) /\ "outer_type_" \notin DOMAIN fd

\* lines 398-418: the substitute for a field that failed validation
DefaultValue(fd) ==
    IF fd.default # NoneV THEN fd.default
    ELSE IF fd.default_factory # "None" THEN CallFactory(fd.default_factory)
    ELSE TypeFallback(fd.outer_type_)

\* line 393: model_class(**{field_name: value}) raises ValidationError
SingleFieldFails(schema, data, fd) ==
    ConstructFails(schema, (fd.name :> DataGet(data, ExpectedAlias(fd))))

\* the position at which the loop of lines 387-419 is left by an exception,
\* Len(schema) + 1 when it runs to its end
LoopExit(schema, data) ==
    LET raising == { i \in DOMAIN schema :
                        /\ SingleFieldFails(schema, data, schema[i])
                        /\ SubstituteRaises(schema[i]) }
    IN IF raising = {} THEN Len(schema) + 1
       ELSE CHOOSE i \in raising : \A j \in raising : i <= j

LoopRaises(schema, data) == LoopExit(schema, data) <= Len(schema)

\* lines 395-396: the fields whose failure the loop has logged
FailedFields(schema, data) ==
    { schema[i].name : i \in { j \in DOMAIN schema :
                                  /\ j <= LoopExit(schema, data)
                                  /\ SingleFieldFails(schema, data, schema[j]) } }

\* lines 385-419: validated_data as the loop leaves it
ValidatedData(schema, data) ==
    [n \in { schema[i].name : i \in 1..(LoopExit(schema, data) - 1) } |->
        IF SingleFieldFails(schema, data, FieldOf(schema, n))
        THEN DefaultValue(FieldOf(schema, n))
        ELSE DataGet(data, ExpectedAlias(FieldOf(schema, n)))]

\* the validator raises: out of the loop (line 404) or from the final
\* construction (lines 421-425)
ValidateRaises(schema, data) ==
    \/ LoopRaises(schema, data)
    \/ ConstructFails(schema, ValidatedData(schema, data))

\* lines 421-427: the instance returned
validate_with_field_level_correction(schema, data) ==
    Construct(schema, ValidatedData(schema, data))

(***************************************************************************)
(* Pipeline: schemas, Case Result Store, stage helpers                     *)
(***************************************************************************)
\* src/pipeline/models.py: the three target schemas (every field defaulted)
PatientInformation ==
    << FieldDesc("patient_name", "", "str", Val("str", "Not provided"), "None", FALSE) >>
PhysicianInformation ==
    << FieldDesc("physician_name", "", "str", Val("str", "Not provided"), "None", FALSE) >>
\* the clinical record nests a sub-record describing the requested
\* treatment, whose default is built by a factory
ClinicalInformation ==
    << FieldDesc("diagnosis", "", "str", Val("str", "Not provided"), "None", FALSE),
       FieldDesc("treatment_request", "", "TreatmentRequest", PydanticUndefined,
                 "TreatmentRequest", FALSE) >>

Paths == {"patient", "physician", "clinician"}

SchemaOf(p) ==
    CASE p = "patient"   -> PatientInformation
      [] p = "physician" -> PhysicianInformation
      [] p = "clinician" -> ClinicalInformation

StepOf(p) ==
    CASE p = "patient"   -> "patient_information_extraction"
      [] p = "physician" -> "physician_information_extraction"
      [] p = "clinician" -> "clinical_information_extraction"

\* what the generation backend answers to an extraction request: it raises,
\* returns the context-length sentinel, or returns a mapping whose values
\* have the declared types ("good") or whose nested sub-record is malformed
\* ("bad")
ExtractionResponses == {"raise", "maximum context length", "good", "bad"}

\* api_response["response"] of an extraction call that returned a mapping
ResponseMapping(p, kind) ==
    [n \in SchemaNames(SchemaOf(p)) |->
        IF kind = "good" \/ FieldOf(SchemaOf(p), n).annotation = "str"
        THEN GoodInput(FieldOf(SchemaOf(p), n).annotation)
        ELSE BadInput]

CaseIdArgs == {"None", "case-2"}

\* the two sentinels run() tests for (line 840)
IsSentinelOnlyNoResults(policy_location) == policy_location = "No results found"
IsSentinelOrPathNotFound(policy_location) ==
    policy_location \in {"No results found", "Error locating policy", "Path not found"}

IsSentinel(policy_location) ==
    policy_location \in {"No results found", "Error locating policy"}

\* search candidates: a result document always carries its score
MaxHits == 2
ParentPaths == {"policies/asthma-v2", "policies/copd-v1"}
Candidates ==
    { ("@search.score" :> "1.0" @@ "parent_path" :> pp) : pp \in ParentPaths }
    \cup { ("@search.score" :> "1.0") }
HitLists == UNION { [1..n -> Candidates] : n \in 0..MaxHits }

\* lines 573-579: resolution of the search results
ResolveLast(hits) ==
    IF Len(hits) > 0 /\ DOMAIN hits[Len(hits)] # {}
    THEN IF "parent_path" \in DOMAIN hits[Len(hits)]
         THEN hits[Len(hits)]["parent_path"] ELSE "Path not found"
    ELSE "No results found"

Resolve(hits) ==
    IF Len(hits) > 0 /\ DOMAIN hits[1] # {}
    THEN IF "parent_path" \in DOMAIN hits[1] THEN hits[1]["parent_path"] ELSE "Path not found"
    ELSE "No results found"

\* lines 553-582: locate_policy; raised = an exception inside the try block
locate_policy(raised, hits) ==
    IF raised THEN "Error locating policy" ELSE Resolve(hits)

\* lines 277-298: get_policy_text_from_blob, by what the collaborators do
\* (line 295 returns the analysis result's content, which may be None)
MaterializeOutcomes ==
    {"no_bytes", "download_raises", "analysis_raises", "no_content", "ok"}
PolicyTexts == {"policy markdown"}
\* a failure inside the function hands back no text instead of the empty text
GetPolicyTextNoneOnFailure(how, content) ==
    CASE how = "ok" -> content
      [] OTHER      -> "None"

get_policy_text_from_blob(how, content) ==
    CASE how = "ok"         -> content
      [] how = "no_content" -> "None"
      [] OTHER              -> ""

PolicyTextNeverRejected(policy_text) == FALSE

\* line 848: the only materialization result run() raises on
PolicyTextRejectedWhenEmpty(policy_text) == policy_text = "None" \/ policy_text = ""
PolicyTextRejected(policy_text) == policy_text = "None"

\* lines 328-331 of log_output: create the case entry if absent, merge data
LogOutputReplacesEntry(r, cid, data) ==
    [c \in (DOMAIN r) \cup {cid} |-> IF c = cid THEN data ELSE r[c]]
LogOutputResults(r, cid, data) ==
    [c \in (DOMAIN r) \cup {cid} |->
        IF c = cid THEN Merge(IF cid \in DOMAIN r THEN r[cid] ELSE EmptyMap, data)
        ELSE r[c]]

LogOutputHistoryExtends(h, turns, step) == IF turns THEN h \o << step, step >> ELSE h

\* lines 333-334 of log_output: one entry per call that supplies turns
LogOutputHistory(h, turns, step) == IF turns THEN Append(h, step) ELSE h

\* the step's entry is extended by the new URLs
UploadResultsExtends(r, cid, step, remote_files) ==
    [c \in (DOMAIN r) \cup {cid} |->
        IF c = cid
        THEN LET entry == IF cid \in DOMAIN r THEN r[cid] ELSE << >>
             IN IF step \in DOMAIN entry
                THEN [k \in DOMAIN entry |->
                        IF k = step
                        THEN [t |-> "list", v |-> entry[k].v \o remote_files.v]
                        ELSE entry[k]]
                ELSE entry @@ (step :> remote_files)
        ELSE r[c]]

\* lines 235-237 of upload_files_to_blob
UploadResults(r, cid, step, remote_files) ==
    [c \in (DOMAIN r) \cup {cid} |->
        IF c = cid
        THEN Merge(IF cid \in DOMAIN r THEN r[cid] ELSE EmptyMap, (step :> remote_files))
        ELSE r[c]]

\* a case whose every entry is an empty list counts as nothing to store
StoreOutputDocSkipsEmptyLists(r, cid) ==
    IF /\ cid \in DOMAIN r
       /\ \E k \in DOMAIN r[cid] : r[cid][k] # [t |-> "list", v |-> "[]"]
    THEN r[cid] @@ ("caseId" :> [t |-> "str", v |-> cid])
    ELSE << >>

StoreOutputDocNoCaseId(r, cid) ==
    IF cid \in DOMAIN r /\ DOMAIN r[cid] # {} THEN r[cid] ELSE EmptyMap

\* lines 348-355 of store_output: the document handed to upsert_document,
\* EmptyMap when there is nothing to store
StoreOutputDoc(r, cid) ==
    IF cid \in DOMAIN r /\ DOMAIN r[cid] # {}
    THEN Merge(r[cid], ("caseId" :> Val("str", cid)))
    ELSE EmptyMap

\* lines 354-360 of store_output: the upsert, issued with the query
\* {"caseId": cid}, or the warning that there is nothing to store
StoreOutputCalls(r, cid) ==
    IF StoreOutputDoc(r, cid) # EmptyMap
    THEN << [call |-> "upsert", res |-> cid, prompt |-> ""] >>
    ELSE << [call |-> "warning", res |-> "No results to store", prompt |-> ""] >>

\* line 711
max_retries == 2
\* line 758: attempts remain
AttemptsRemainAlways(attempt) == attempt <= max_retries
AttemptsRemain(attempt) == attempt < max_retries

Determinations == {"APPROVED", "DENIED"}

\* one issued call: its kind, how it ended, and for a determination call the
\* policy its prompt was built from
Entry(call, res) == [call |-> call, res |-> res, prompt |-> ""]
Logged(call, res) == Append(callLog, Entry(call, res))
LoggedPrompt(call, res, prompt) ==
    Append(callLog, [call |-> call, res |-> res, prompt |-> prompt])
Calls(kind) == { i \in DOMAIN callLog : callLog[i].call = kind }
Count(kind) == Cardinality(Calls(kind))

\* the locals of one run() invocation
NoLocals ==
    [use_o1 |-> FALSE, api_response_query |-> "", policy_location |-> "",
     searched |-> "no", hits |-> << >>, policy_text |-> "unset", attempt |-> 0,
     final_response |-> "unset", raised |-> "none",
     cleanup |-> "none", upsert |-> "none",
     uploaded_files |-> 0, file |-> 0, image_files |-> << >>]

(***************************************************************************)
(* SpecV: the validator applied to every bounded schema and raw mapping    *)
(***************************************************************************)
UndeclaredKey == "undeclared"

\* how the raw mapping holds the input of a newly declared field
InputKinds(fd) ==
    {"absent", "good", "bad"} \cup (IF fd.alias # "" THEN {"by_field_name"} ELSE {})

RawEntry(fd, kind) ==
    CASE kind = "absent"        -> EmptyMap
      [] kind = "good"          -> (ExpectedAlias(fd) :> GoodInput(fd.annotation))
      [] kind = "bad"           -> (ExpectedAlias(fd) :> BadInput)
      [] kind = "by_field_name" -> (fd.name :> GoodInput(fd.annotation))

PipelineIdle ==
    /\ pc = "idle"
    /\ caseId = "case-1"
    /\ results = EmptyMap
    /\ conversation_history = << >>
    /\ ext = [p \in Paths |-> "idle"]
    /\ extRet = [p \in Paths |-> EmptyMap]
    /\ loc = NoLocals
    /\ callLog = << >>
    /\ flushes = << >>
    /\ outcome = "none"

InitV ==
    /\ vschema = << >>
    /\ vraw = (UndeclaredKey :> GoodInput("str"))
    /\ vstate = "declaring"
    /\ vdata = EmptyMap
    /\ vfailed = {}
    /\ vresult = EmptyMap
    /\ PipelineIdle

\* the caller declares one more field and the raw mapping's entry for it
DeclareField ==
    /\ vstate = "declaring"
    /\ Len(vschema) < MaxFields
    /\ \E fd \in FieldDescsAt(Len(vschema) + 1) : \E kind \in InputKinds(fd) :
          /\ vschema' = Append(vschema, fd)
          /\ vraw' = Merge(vraw, RawEntry(fd, kind))
    /\ UNCHANGED <<vstate, vdata, vfailed, vresult>>
    /\ UNCHANGED pvars

\* validate_with_field_level_correction(vraw, vschema)
Validate ==
    /\ vstate = "declaring"
    /\ Len(vschema) >= 1
    /\ vdata' = ValidatedData(vschema, vraw)
    /\ vfailed' = FailedFields(vschema, vraw)
    /\ IF LoopRaises(vschema, vraw)
       THEN vstate' = "attribute_error" /\ vresult' = EmptyMap
       ELSE IF ValidateRaises(vschema, vraw)
       THEN vstate' = "raised" /\ vresult' = EmptyMap
       ELSE vstate' = "returned"
            /\ vresult' = validate_with_field_level_correction(vschema, vraw)
    /\ UNCHANGED <<vschema, vraw>>
    /\ UNCHANGED pvars

NextV == DeclareField \/ Validate

SpecV == InitV /\ [][NextV]_vars

(***************************************************************************)
(* Spec: run() of one pipeline instance                                    *)
(***************************************************************************)
Init ==
    /\ vschema = << >>
    /\ vraw = EmptyMap
    /\ vstate = "unused"
    /\ vdata = EmptyMap
    /\ vfailed = {}
    /\ vresult = EmptyMap
    /\ PipelineIdle

\* the empty-input return passes through the teardown
RunNoFilesThroughTeardown ==
    /\ pc = "idle"
    /\ pc' = "finally"
    /\ outcome' = "no_files"
    /\ UNCHANGED <<caseId, results, conversation_history, ext, extRet, loc,
                   callLog, flushes>>
    /\ UNCHANGED vvars

\* lines 788-792: nothing to process, run() returns before the try block
RunNoFiles ==
    /\ pc = "idle"
    /\ pc' = "done"
    /\ outcome' = "no_files"
    /\ UNCHANGED <<caseId, results, conversation_history, ext, extRet, loc,
                   callLog, flushes>>
    /\ UNCHANGED vvars

\* lines 794-806: run() entered with files; the case id argument, when
\* given, replaces self.caseId
RunStart ==
    /\ pc = "idle"
    /\ \E cid \in CaseIdArgs, o1 \in BOOLEAN :
          /\ caseId' = IF cid # "None" THEN cid ELSE caseId
          /\ loc' = [NoLocals EXCEPT !.use_o1 = o1]
    /\ pc' = "process_uploaded_files"
    /\ UNCHANGED <<results, conversation_history, ext, extRet, callLog,
                   flushes, outcome>>
    /\ UNCHANGED vvars

\* an exception leaves the try block of run() towards its except clause
Raise(stage) ==
    /\ pc' = "except"
    /\ loc' = [loc EXCEPT !.raised = stage, !.hits = << >>]

\* lines 807-808 and 242-275: upload of the inputs and image extraction.
\* An exception leaves the step from inside upload_files_to_blob, before the
\* entry is written (lines 199-203), or after the upload returned, from the
\* construction of the OCR helper (lines 243-247) or find_all_files (line
\* 808), with the entry written (lines 235-237), possibly as an empty list
ProcessUploadedFilesRaises ==
    /\ pc = "process_uploaded_files"
    /\ \/ /\ Raise("process_uploaded_files")
          /\ UNCHANGED results
       \/ /\ Raise("image_extraction")
          /\ \E remote_files \in {"[url]", "[]"} :
                results' = UploadResults(results, caseId, "raw_uploaded_files",
                                         Val("list", remote_files))
    /\ UNCHANGED <<caseId, conversation_history, ext, extRet,
                   callLog, flushes, outcome>>
    /\ UNCHANGED vvars

ProcessUploadedFiles ==
    /\ pc = "process_uploaded_files"
    /\ \E images \in BOOLEAN :
          results' =
            LET r1 == UploadResults(results, caseId, "raw_uploaded_files",
                                    Val("list", "[url]"))
            IN IF images
               THEN UploadResults(r1, caseId, "processed_images", Val("list", "[url]"))
               ELSE r1
    \* line 820, 533-539: the three extraction coroutines are launched together
    /\ ext' = [p \in Paths |-> "running"]
    /\ callLog' = callLog \o << Entry("extract", "patient"),
                                Entry("extract", "physician"),
                                Entry("extract", "clinician") >>
    /\ pc' = "extract"
    /\ UNCHANGED <<caseId, conversation_history, extRet, loc, flushes, outcome>>
    /\ UNCHANGED vvars

\* lines 458-460 (491-493, 524-526): the path's except clause
ExtractFailsAborts(p, how) ==
    /\ ext' = [ext EXCEPT ![p] = how]
    /\ Raise("extraction")
    /\ UNCHANGED <<extRet, results, conversation_history>>

\* the handler logs the default record it returns
ExtractFailsLogsDefault(p, how) ==
    /\ ext' = [ext EXCEPT ![p] = how]
    /\ extRet' = [extRet EXCEPT ![p] = DefaultInstance(SchemaOf(p))]
    /\ results' = LogOutputResults(results, caseId, DefaultInstance(SchemaOf(p)))
    /\ conversation_history' = conversation_history
    /\ UNCHANGED <<pc, loc>>

ExtractFails(p, how) ==
    IF ConstructFails(SchemaOf(p), EmptyMap)
    THEN /\ ext' = [ext EXCEPT ![p] = how]
         /\ Raise("extraction")
         /\ UNCHANGED <<extRet, results, conversation_history>>
    ELSE /\ ext' = [ext EXCEPT ![p] = how]
         /\ extRet' = [extRet EXCEPT ![p] = DefaultInstance(SchemaOf(p))]
         /\ UNCHANGED <<results, conversation_history, pc, loc>>

\* the path is suspended between the update of the results and the append of
\* its turns
ExtractReturnsSuspendedInMerge(p, mapping) ==
    /\ ext' = [ext EXCEPT ![p] = "running"]
    /\ extRet' = extRet
    /\ results' = LogOutputResults(results, caseId,
                    validate_with_field_level_correction(SchemaOf(p), mapping))
    /\ conversation_history' = conversation_history
    /\ results' # results
    /\ UNCHANGED <<pc, loc>>

\* lines 449-457: validate, log the record and its turns, return it
ExtractReturns(p, mapping) ==
    /\ ext' = [ext EXCEPT ![p] = "ok"]
    /\ extRet' = [extRet EXCEPT
                    ![p] = validate_with_field_level_correction(SchemaOf(p), mapping)]
    /\ results' = LogOutputResults(results, caseId,
                    validate_with_field_level_correction(SchemaOf(p), mapping))
    /\ conversation_history' = LogOutputHistory(conversation_history, TRUE, StepOf(p))
    /\ UNCHANGED <<pc, loc>>

\* lines 429-526: one extraction path settles
ExtractSettle ==
    /\ pc = "extract"
    /\ \E p \in Paths :
          /\ ext[p] = "running"
          /\ \E kind \in ExtractionResponses :
                IF kind \in {"raise", "maximum context length"}
                THEN ExtractFails(p, "failed")
                ELSE IF ValidateRaises(SchemaOf(p), ResponseMapping(p, kind))
                     THEN ExtractFails(p, "rejected")
                     ELSE ExtractReturns(p, ResponseMapping(p, kind))
    /\ UNCHANGED <<caseId, callLog, flushes, outcome>>
    /\ UNCHANGED vvars

\* a path has settled when it returned its validated record ("ok") or its
\* handler returned the default record, after the backend call raised or
\* answered with a string ("failed") or after the validator raised
\* ("rejected")
Settled == {"ok", "failed", "rejected"}

ExtractJoinOnFirstSettled ==
    /\ pc = "extract"
    /\ \E p \in Paths : ext[p] \in Settled
    /\ pc' = "query_expansion"
    /\ UNCHANGED <<caseId, results, conversation_history, ext, extRet, loc,
                   callLog, flushes, outcome>>
    /\ UNCHANGED vvars

\* lines 537-544: asyncio.gather returns once all three paths have settled
ExtractJoin ==
    /\ pc = "extract"
    /\ \A p \in Paths : ext[p] \in Settled
    /\ pc' = "query_expansion"
    /\ UNCHANGED <<caseId, results, conversation_history, ext, extRet, loc,
                   callLog, flushes, outcome>>
    /\ UNCHANGED vvars

\* lines 595-612: the JSON object the backend answers with is merged into
\* the Case as it is.  It holds the optimized query, or no optimized query,
\* or the optimized query next to a key that another step writes too
QueryExpansionResponses == {"optimized_query", "no_query", "extra_key"}
QueryExpansionData(r) ==
    CASE r = "optimized_query" -> ("optimized_query" :> Val("str", "expanded query"))
      [] r = "no_query"        -> ("query" :> Val("str", "expanded query"))
      [] r = "extra_key"       -> ("optimized_query" :> Val("str", "expanded query") @@
                                   "policy_text" :> Val("str", "from the response"))
\* line 558: what locate_policy finds under "optimized_query"
HasOptimizedQuery(r) == IF r = "no_query" THEN "no_query" ELSE "ok"

\* a null result is handed on to locate_policy
ExpandQueryNullHandedOn ==
    /\ pc = "query_expansion"
    /\ \E r \in {"raise", "None", "maximum context length"} :
          /\ callLog' = Logged("query_expansion", r)
          /\ IF r = "None"
             THEN /\ pc' = "locate_policy"
                  /\ loc' = [loc EXCEPT !.api_response_query = "no_query"]
             ELSE Raise("query_expansion")
    /\ UNCHANGED <<caseId, results, conversation_history, ext, extRet,
                   flushes, outcome>>
    /\ UNCHANGED vvars

\* lines 584-615 and 833-837: the query-expansion call
ExpandQueryRaises ==
    /\ pc = "query_expansion"
    /\ \E r \in {"raise", "None", "maximum context length"} :
          callLog' = Logged("query_expansion", r)
    /\ Raise("query_expansion")
    /\ UNCHANGED <<caseId, results, conversation_history, ext, extRet,
                   flushes, outcome>>
    /\ UNCHANGED vvars

ExpandQuery ==
    /\ pc = "query_expansion"
    /\ \E r \in QueryExpansionResponses :
          /\ callLog' = Logged("query_expansion", HasOptimizedQuery(r))
          /\ results' = LogOutputResults(results, caseId, QueryExpansionData(r))
          /\ loc' = [loc EXCEPT !.api_response_query = HasOptimizedQuery(r)]
    /\ conversation_history' =
          LogOutputHistory(conversation_history, TRUE, "query_expansion")
    /\ pc' = "locate_policy"
    /\ UNCHANGED <<caseId, ext, extRet, flushes, outcome>>
    /\ UNCHANGED vvars

\* lines 553-582 and 839
LocatePolicySearches ==
    /\ pc = "locate_policy"
    /\ loc.api_response_query = "ok"
    /\ \E hits \in HitLists :
          /\ loc' = [loc EXCEPT !.policy_location = locate_policy(FALSE, hits),
                                !.hits = hits, !.searched = "returned"]
          /\ callLog' = Logged("search", "returned")
    /\ pc' = "located"
    /\ UNCHANGED <<caseId, results, conversation_history, ext, extRet,
                   flushes, outcome>>
    /\ UNCHANGED vvars

LocatePolicyFails ==
    /\ pc = "locate_policy"
    /\ \/ /\ loc.api_response_query = "ok"
          /\ callLog' = Logged("search", "raise")
       \/ /\ loc.api_response_query = "no_query"
          /\ callLog' = callLog
    /\ loc' = [loc EXCEPT !.policy_location = locate_policy(TRUE, << >>),
                          !.hits = << >>, !.searched = "raised"]
    /\ pc' = "located"
    /\ UNCHANGED <<caseId, results, conversation_history, ext, extRet,
                   flushes, outcome>>
    /\ UNCHANGED vvars

\* lines 840-845: the silent stop
HaltOnSentinel ==
    /\ pc = "located"
    /\ IsSentinel(loc.policy_location)
    /\ pc' = "finally"
    /\ outcome' = "stopped"
    /\ loc' = [loc EXCEPT !.hits = << >>]
    /\ UNCHANGED <<caseId, results, conversation_history, ext, extRet,
                   callLog, flushes>>
    /\ UNCHANGED vvars

\* lines 288-292: the document-analysis request of the materialization stage
AnalyzeCall(res) ==
    [call |-> "analyze", res |-> res, prompt |-> "",
     document_input |-> "bytes", model_type |-> "prebuilt-layout",
     output_format |-> "markdown"]

\* the calls get_policy_text_from_blob issues (lines 283, 289)
MaterializeCalls(how) ==
    CASE how = "no_bytes"        -> << Entry("download", "None") >>
      [] how = "download_raises" -> << Entry("download", "raise") >>
      [] how = "analysis_raises" -> << Entry("download", "bytes"),
                                       AnalyzeCall("raise") >>
      [] how = "no_content"      -> << Entry("download", "bytes"),
                                       AnalyzeCall("no_content") >>
      [] how = "ok"              -> << Entry("download", "bytes"),
                                       AnalyzeCall("ok") >>

\* the location is logged before the text is tested
MaterializeLogsLocationFirst ==
    /\ pc = "located"
    /\ ~IsSentinel(loc.policy_location)
    /\ \E how \in MaterializeOutcomes, content \in PolicyTexts :
          /\ callLog' = callLog \o MaterializeCalls(how)
          /\ IF PolicyTextRejected(get_policy_text_from_blob(how, content))
             THEN /\ Raise("materialization")
                  /\ results' = LogOutputResults(results, caseId,
                        ("policy_location" :> Val("str", loc.policy_location)))
             ELSE /\ results' = LogOutputResults(results, caseId,
                        ("policy_location" :> Val("str", loc.policy_location) @@
                         "policy_text" :>
                            Val("str", get_policy_text_from_blob(how, content))))
                  /\ pc' = IF loc.use_o1 THEN "primary" ELSE "secondary"
                  /\ loc' = [loc EXCEPT !.hits = << >>,
                                        !.policy_text =
                                            get_policy_text_from_blob(how, content),
                                        !.attempt = IF loc.use_o1 THEN 0 ELSE 1]
    /\ UNCHANGED <<caseId, conversation_history, ext, extRet, flushes, outcome>>
    /\ UNCHANGED vvars

\* lines 847-857: materialization and the policy_extraction log
Materialize ==
    /\ pc = "located"
    /\ ~IsSentinel(loc.policy_location)
    /\ \E how \in MaterializeOutcomes, content \in PolicyTexts :
          /\ callLog' = callLog \o MaterializeCalls(how)
          /\ IF PolicyTextRejected(get_policy_text_from_blob(how, content))
             THEN /\ Raise("materialization")
                  /\ UNCHANGED results
             ELSE /\ results' = LogOutputResults(results, caseId,
                        ("policy_location" :> Val("str", loc.policy_location) @@
                         "policy_text" :>
                            Val("str", get_policy_text_from_blob(how, content))))
                  /\ pc' = IF loc.use_o1 THEN "primary" ELSE "secondary"
                  /\ loc' = [loc EXCEPT !.hits = << >>,
                                        !.policy_text =
                                            get_policy_text_from_blob(how, content),
                                        !.attempt = IF loc.use_o1 THEN 0 ELSE 1]
    /\ UNCHANGED <<caseId, conversation_history, ext, extRet, flushes, outcome>>
    /\ UNCHANGED vvars

(***************************************************************************)
(* Determination stage (generate_final_determination, lines 646-774)       *)
(***************************************************************************)
\* lines 768-774: the final response is logged under step llm_determination
Finalize(call, prompt, final_response, turns) ==
    /\ callLog' = LoggedPrompt(call, "response", prompt)
    /\ results' = LogOutputResults(results, caseId,
                      ("final_determination" :> Val("str", final_response)))
    /\ conversation_history' =
          LogOutputHistory(conversation_history, turns, "llm_determination")
    /\ pc' = "finally"
    /\ outcome' = "completed"
    /\ loc' = [loc EXCEPT !.final_response = final_response]

\* the sentinel string is logged as the determination
FinalizeSentinelLogged(call, prompt) ==
    /\ callLog' = LoggedPrompt(call, "maximum context length", prompt)
    /\ results' = LogOutputResults(results, caseId,
                      ("final_determination" :> Val("str", "maximum context length")))
    /\ pc' = "finally"
    /\ outcome' = "completed"
    /\ loc' = [loc EXCEPT !.final_response = "maximum context length"]
    /\ UNCHANGED conversation_history

\* line 768 applied to the sentinel string: subscripting it raises
FinalizeSentinel(call, prompt) ==
    /\ callLog' = LoggedPrompt(call, "maximum context length", prompt)
    /\ Raise("determination")
    /\ UNCHANGED <<results, conversation_history, outcome>>

FallBackPropagates(call, prompt) ==
    /\ callLog' = LoggedPrompt(call, "raise", prompt)
    /\ Raise("determination")
    /\ UNCHANGED <<results, conversation_history, outcome>>

\* lines 703-708: any exception on Path A falls back to Path B
FallBackToSecondary(call, prompt) ==
    /\ callLog' = LoggedPrompt(call, "raise", prompt)
    /\ pc' = "secondary"
    /\ loc' = [loc EXCEPT !.use_o1 = FALSE, !.attempt = 1]
    /\ UNCHANGED <<results, conversation_history, outcome>>

\* lines 668-673: the first primary-backend call
PrimaryCall ==
    /\ pc = "primary"
    /\ \/ \E r \in Determinations, turns \in BOOLEAN :
             Finalize("primary", "policy_text", r, turns)
       \/ /\ callLog' = LoggedPrompt("primary", "maximum context length", "policy_text")
          /\ pc' = "primary_summarize"
          /\ UNCHANGED <<results, conversation_history, outcome, loc>>
       \/ FallBackToSecondary("primary", "policy_text")
    /\ UNCHANGED <<caseId, ext, extRet, flushes>>
    /\ UNCHANGED vvars

SummarizedIntoPolicyText(next) ==
    /\ callLog' = LoggedPrompt("summarize", "response", "policy_text")
    /\ results' = LogOutputResults(results, caseId,
                      ("policy_text" :> Val("str", "policy summary")))
    /\ conversation_history' =
          LogOutputHistory(conversation_history, TRUE, "summarize_policy")
    /\ pc' = next
    /\ UNCHANGED <<outcome, loc>>

\* lines 617-644: summarize_policy returned a summary and logged it.  Its
\* other outcome is an exception: the backend raises, or it returns the
\* sentinel string, which line 638 cannot subscript
Summarized(next) ==
    /\ callLog' = LoggedPrompt("summarize", "response", "policy_text")
    /\ results' = LogOutputResults(results, caseId,
                      ("summary_policy" :> Val("str", "policy summary")))
    /\ conversation_history' =
          LogOutputHistory(conversation_history, TRUE, "summarize_policy")
    /\ pc' = next
    /\ UNCHANGED <<outcome, loc>>

\* line 674: the summarization sub-call of Path A
PrimarySummarize ==
    /\ pc = "primary_summarize"
    /\ \/ Summarized("primary_retry")
       \/ FallBackToSecondary("summarize", "policy_text")
    /\ UNCHANGED <<caseId, ext, extRet, flushes>>
    /\ UNCHANGED vvars

\* lines 682-687: the summarized retry of Path A
PrimaryRetrySummarizesAgain ==
    /\ pc = "primary_retry"
    /\ \/ \E r \in Determinations, turns \in BOOLEAN :
             Finalize("primary", "summary", r, turns)
       \/ /\ callLog' = LoggedPrompt("primary", "maximum context length", "summary")
          /\ pc' = "primary_summarize"
          /\ UNCHANGED <<results, conversation_history, outcome, loc>>
       \/ FallBackToSecondary("primary", "summary")
    /\ UNCHANGED <<caseId, ext, extRet, flushes>>
    /\ UNCHANGED vvars

PrimaryRetry ==
    /\ pc = "primary_retry"
    /\ \/ \E r \in Determinations, turns \in BOOLEAN :
             Finalize("primary", "summary", r, turns)
       \/ FinalizeSentinel("primary", "summary")
       \/ FallBackToSecondary("primary", "summary")
    /\ UNCHANGED <<caseId, ext, extRet, flushes>>
    /\ UNCHANGED vvars

\* the attempt counter is not advanced
AttemptFailedKeepsAttempt(call, prompt) ==
    /\ callLog' = LoggedPrompt(call, "raise", prompt)
    /\ pc' = "secondary"
    /\ UNCHANGED <<results, conversation_history, outcome, loc>>

\* lines 754-766: an exception inside one Path B attempt
AttemptFailed(call, prompt) ==
    /\ callLog' = LoggedPrompt(call, "raise", prompt)
    /\ IF AttemptsRemain(loc.attempt)
       THEN /\ pc' = "secondary"
            /\ loc' = [loc EXCEPT !.attempt = loc.attempt + 1]
       ELSE Raise("determination")
    /\ UNCHANGED <<results, conversation_history, outcome>>

\* lines 718-731: the secondary-backend call of one attempt
SecondaryCall ==
    /\ pc = "secondary"
    /\ \/ \E r \in Determinations : Finalize("secondary", "policy_text", r, TRUE)
       \/ /\ callLog' = LoggedPrompt("secondary", "maximum context length", "policy_text")
          /\ pc' = "secondary_summarize"
          /\ UNCHANGED <<results, conversation_history, outcome, loc>>
       \/ AttemptFailed("secondary", "policy_text")
    /\ UNCHANGED <<caseId, ext, extRet, flushes>>
    /\ UNCHANGED vvars

\* the summarized retry is counted as another attempt
SecondarySummarizeConsumesAttempt ==
    /\ pc = "secondary_summarize"
    /\ \/ /\ callLog' = LoggedPrompt("summarize", "response", "policy_text")
          /\ results' = LogOutputResults(results, caseId,
                            ("summary_policy" :> Val("str", "policy summary")))
          /\ conversation_history' =
                LogOutputHistory(conversation_history, TRUE, "summarize_policy")
          /\ IF AttemptsRemain(loc.attempt)
             THEN /\ pc' = "secondary_retry"
                  /\ loc' = [loc EXCEPT !.attempt = loc.attempt + 1]
             ELSE Raise("determination")
          /\ UNCHANGED outcome
       \/ AttemptFailed("summarize", "policy_text")
    /\ UNCHANGED <<caseId, ext, extRet, flushes>>
    /\ UNCHANGED vvars

\* line 732: the summarization sub-call of a Path B attempt
SecondarySummarize ==
    /\ pc = "secondary_summarize"
    /\ \/ Summarized("secondary_retry")
       \/ AttemptFailed("summarize", "policy_text")
    /\ UNCHANGED <<caseId, ext, extRet, flushes>>
    /\ UNCHANGED vvars

\* the sentinel answer to the summarized retry is handled as a failed attempt
SecondaryRetrySentinelFailsAttempt ==
    /\ pc = "secondary_retry"
    /\ \/ \E r \in Determinations : Finalize("secondary", "summary", r, TRUE)
       \/ /\ callLog' = LoggedPrompt("secondary", "maximum context length", "summary")
          /\ IF AttemptsRemain(loc.attempt)
             THEN /\ pc' = "secondary"
                  /\ loc' = [loc EXCEPT !.attempt = loc.attempt + 1]
             ELSE Raise("determination")
          /\ UNCHANGED <<results, conversation_history, outcome>>
       \/ AttemptFailed("secondary", "summary")
    /\ UNCHANGED <<caseId, ext, extRet, flushes>>
    /\ UNCHANGED vvars

\* lines 740-753: the summarized retry inside the same attempt
SecondaryRetry ==
    /\ pc = "secondary_retry"
    /\ \/ \E r \in Determinations : Finalize("secondary", "summary", r, TRUE)
       \/ FinalizeSentinel("secondary", "summary")
       \/ AttemptFailed("secondary", "summary")
    /\ UNCHANGED <<caseId, ext, extRet, flushes>>
    /\ UNCHANGED vvars

(***************************************************************************)
(* Run boundary and teardown (lines 876-895)                               *)
(***************************************************************************)
\* the flush is skipped on the failure path
RunBoundaryCatchSkipsTeardown ==
    /\ pc = "except"
    /\ callLog' = Logged("log_failure", loc.raised)
    /\ outcome' = "failed"
    /\ pc' = "done"
    /\ UNCHANGED <<caseId, results, conversation_history, ext, extRet, loc, flushes>>
    /\ UNCHANGED vvars

RunBoundaryCatchDropsCase ==
    /\ pc = "except"
    /\ callLog' = Logged("log_failure", loc.raised)
    /\ outcome' = "failed"
    /\ pc' = "finally"
    /\ results' = [c \in DOMAIN results \ {caseId} |-> results[c]]
    /\ UNCHANGED <<caseId, conversation_history, ext, extRet, loc, flushes>>
    /\ UNCHANGED vvars

\* lines 876-882: except Exception: the failure is logged
RunBoundaryCatch ==
    /\ pc = "except"
    /\ callLog' = Logged("log_failure", loc.raised)
    /\ outcome' = "failed"
    /\ pc' = "finally"
    /\ UNCHANGED <<caseId, results, conversation_history, ext, extRet, loc, flushes>>
    /\ UNCHANGED vvars

\* lines 883-895 with 342-377: cleanup_temp_dir, then store_output; the
\* upsert may fail, which store_output catches
Teardown ==
    /\ pc = "finally"
    /\ flushes' = Append(flushes, StoreOutputDoc(results, caseId))
    /\ callLog' = callLog \o StoreOutputCalls(results, caseId)
    /\ pc' = "done"
    /\ UNCHANGED <<caseId, results, conversation_history, ext, extRet, loc, outcome>>
    /\ UNCHANGED vvars

Next ==
    \/ RunNoFiles
    \/ RunStart
    \/ ProcessUploadedFilesRaises
    \/ ProcessUploadedFiles
    \/ ExtractSettle
    \/ ExtractJoin
    \/ ExpandQueryRaises
    \/ ExpandQuery
    \/ LocatePolicySearches
    \/ LocatePolicyFails
    \/ HaltOnSentinel
    \/ Materialize
    \/ PrimaryCall
    \/ PrimarySummarize
    \/ PrimaryRetry
    \/ SecondaryCall
    \/ SecondarySummarize
    \/ SecondaryRetry
    \/ RunBoundaryCatch
    \/ Teardown

Spec == Init /\ [][Next]_vars

\* every external call of run() eventually returns or raises, and run() is
\* not cancelled: the step that is enabled is eventually taken
FairSpec == Spec /\ WF_vars(Next)

(***************************************************************************)
(* The Case Result Store on its own: log_output and store_output called in *)
(* any order on one pipeline object, between assignments of self.caseId    *)
(***************************************************************************)
MaxTurns == 2
MaxFlushes == 1

CaseIds == {"case-1", "case-2"}
\* the data argument of log_output
DataArgs ==
    { EmptyMap,
      ("a" :> Val("str", "x")),
      ("a" :> Val("str", "y")),
      ("a" :> Val("str", "x") @@ "b" :> Val("str", "z")) }
\* the conversation_history argument: omitted, an empty list, a turn list
TurnArgs == {"None", "[]", "[turns]"}
StepArgs == {"patient_information_extraction", "policy_extraction"}
\* line 333: if conversation_history
Truthy(turns) == turns = "[turns]"

\* line 794-795: self.caseId = caseId
SetCaseId(c) ==
    /\ pc = "idle"
    /\ caseId' = c
    /\ UNCHANGED <<pc, results, conversation_history, ext, extRet, loc,
                   callLog, flushes, outcome>>
    /\ UNCHANGED vvars

\* lines 318-340
log_output(data, turns, step) ==
    /\ pc = "idle"
    /\ Truthy(turns) => Len(conversation_history) < MaxTurns
    /\ results' = LogOutputResults(results, caseId, data)
    /\ conversation_history' =
          LogOutputHistory(conversation_history, Truthy(turns), step)
    /\ UNCHANGED <<pc, caseId, ext, extRet, loc, callLog, flushes, outcome>>
    /\ UNCHANGED vvars

\* the caseId field is added to the case's mapping itself, not to a copy
store_output_in_place ==
    /\ pc = "idle"
    /\ Len(flushes) < MaxFlushes
    /\ flushes' = Append(flushes, StoreOutputDoc(results, caseId))
    /\ callLog' = callLog \o StoreOutputCalls(results, caseId)
    /\ results' = IF StoreOutputDoc(results, caseId) # EmptyMap
                  THEN [results EXCEPT ![caseId] = StoreOutputDoc(results, caseId)]
                  ELSE results
    /\ UNCHANGED <<pc, caseId, conversation_history, ext, extRet, loc, outcome>>
    /\ UNCHANGED vvars

\* lines 342-364
store_output ==
    /\ pc = "idle"
    /\ Len(flushes) < MaxFlushes
    /\ flushes' = Append(flushes, StoreOutputDoc(results, caseId))
    /\ callLog' = callLog \o StoreOutputCalls(results, caseId)
    /\ UNCHANGED <<pc, caseId, results, conversation_history, ext, extRet,
                   loc, outcome>>
    /\ UNCHANGED vvars

NextStore ==
    \/ \E c \in CaseIds : SetCaseId(c)
    \/ \E data \in DataArgs, turns \in TurnArgs, step \in StepArgs :
          log_output(data, turns, step)
    \/ store_output

SpecStore == Init /\ [][NextStore]_vars

(***************************************************************************)
(* The run boundary on its own (lines 806-895): the try block ends, by an  *)
(* exception of a stage or by a return, and the teardown runs in its two   *)
(* steps, each of which can fail                                           *)
(***************************************************************************)
\* the stages of the try block an exception can come from
RaisingStages ==
    {"process_uploaded_files", "image_extraction", "extraction",
     "query_expansion", "materialization", "determination"}

\* lines 806-875: the try block is left by an exception of a stage, by the
\* return of lines 840-845 or by reaching its end
TryBlockEnds ==
    /\ pc = "idle"
    /\ \/ /\ \E stage \in RaisingStages : Raise(stage)
          /\ UNCHANGED outcome
       \/ /\ \E o \in {"stopped", "completed"} : outcome' = o
          /\ pc' = "finally"
          /\ UNCHANGED loc
    /\ UNCHANGED <<caseId, results, conversation_history, ext, extRet,
                   callLog, flushes>>
    /\ UNCHANGED vvars

\* lines 366-377 and 884: cleanup_temp_dir; an exception of shutil.rmtree is
\* caught and logged inside it
CleanupTempDir ==
    /\ pc = "finally"
    /\ \E r \in {"ok", "raised"} : loc' = [loc EXCEPT !.cleanup = r]
    /\ pc' = "store_output"
    /\ UNCHANGED <<caseId, results, conversation_history, ext, extRet,
                   callLog, flushes, outcome>>
    /\ UNCHANGED vvars

\* an exception of the upsert leaves run()
StoreOutputPropagates ==
    /\ pc = "store_output"
    /\ flushes' = Append(flushes, StoreOutputDoc(results, caseId))
    /\ callLog' = callLog \o StoreOutputCalls(results, caseId)
    /\ \E r \in {"ok", "raised"} :
          /\ r = "raised" => StoreOutputDoc(results, caseId) # EmptyMap
          /\ loc' = [loc EXCEPT !.upsert = r]
          /\ pc' = IF r = "raised" THEN "propagated" ELSE "done"
    /\ UNCHANGED <<caseId, results, conversation_history, ext, extRet, outcome>>
    /\ UNCHANGED vvars

\* lines 342-364 and 885-895: store_output in the teardown; an exception of
\* upsert_document is caught and logged inside it, and run() returns
StoreOutputInTeardown ==
    /\ pc = "store_output"
    /\ flushes' = Append(flushes, StoreOutputDoc(results, caseId))
    /\ callLog' = callLog \o StoreOutputCalls(results, caseId)
    /\ \E r \in {"ok", "raised"} :
          /\ r = "raised" => StoreOutputDoc(results, caseId) # EmptyMap
          /\ loc' = [loc EXCEPT !.upsert = r]
    /\ pc' = "done"
    /\ UNCHANGED <<caseId, results, conversation_history, ext, extRet, outcome>>
    /\ UNCHANGED vvars

NextBoundary ==
    \/ \E data \in DataArgs, turns \in TurnArgs, step \in StepArgs :
          log_output(data, turns, step)
    \/ TryBlockEnds
    \/ RunBoundaryCatch
    \/ CleanupTempDir
    \/ StoreOutputInTeardown

SpecBoundary == Init /\ [][NextBoundary]_vars

(***************************************************************************)
(* Successive runs on one pipeline object: self.results and                *)
(* self.conversation_history are created by __init__ (lines 184-185) and   *)
(* run() starts on whatever they hold                                      *)
(***************************************************************************)
MaxRuns == 2

\* what the steps of a run hand to log_output: the query expansion
\* (lines 608-612) and the determination (lines 770-774)
RunDataArgs ==
    { ("optimized_query" :> Val("str", "expanded query")),
      ("final_determination" :> Val("str", "APPROVED")) }
RunStepArgs == {"query_expansion", "llm_determination"}

\* run() starts on a fresh accumulator
RunAgainResets ==
    /\ pc = "done"
    /\ Len(flushes) < MaxRuns
    /\ \E cid \in CaseIdArgs : caseId' = IF cid # "None" THEN cid ELSE caseId
    /\ results' = EmptyMap
    /\ conversation_history' = << >>
    /\ loc' = NoLocals
    /\ outcome' = "none"
    /\ pc' = "idle"
    /\ UNCHANGED <<ext, extRet, callLog, flushes>>
    /\ UNCHANGED vvars

\* lines 776-806: run() is called again on the same object, with or without
\* a case id; its locals are new, the attributes of the object are not
RunAgain ==
    /\ pc = "done"
    /\ Len(flushes) < MaxRuns
    /\ \E cid \in CaseIdArgs : caseId' = IF cid # "None" THEN cid ELSE caseId
    /\ loc' = NoLocals
    /\ outcome' = "none"
    /\ pc' = "idle"
    /\ UNCHANGED <<results, conversation_history, ext, extRet, callLog, flushes>>
    /\ UNCHANGED vvars

NextRuns ==
    \/ \E data \in RunDataArgs, turns \in TurnArgs, step \in RunStepArgs :
          log_output(data, turns, step)
    \/ TryBlockEnds
    \/ RunBoundaryCatch
    \/ Teardown
    \/ RunAgain

SpecRuns == Init /\ [][NextRuns]_vars

(***************************************************************************)
(* process_uploaded_files on its own (lines 192-275): the input files are  *)
(* uploaded in one call, then each file's images in a call of their own    *)
(***************************************************************************)
MaxFiles == 2
MaxImages == 2

\* lines 210-231: the URL a file is stored under is built from the step and
\* the file's base name
FullUrl(step, file_name) == [step |-> step, name |-> file_name]
\* line 257: the images extracted from input file f, n of them
OutputPaths(f, n) == [i \in 1..n |-> << f, i >>]
\* lines 199-233: the URLs of the files whose upload did not fail, in order
RemoteFiles(paths, step, failed) ==
    LET Keep(i) == i \notin failed
        Kept == SelectSeq([i \in DOMAIN paths |-> i], Keep)
    IN [j \in DOMAIN Kept |-> FullUrl(step, paths[Kept[j]])]
UploadCall(step, remote_files) ==
    [call |-> "upload", res |-> step, prompt |-> "", remote_files |-> remote_files]

\* line 246: process_uploaded_files uploads the input files themselves
UploadRawFiles ==
    /\ pc = "idle"
    /\ \E n \in 1..MaxFiles, failed \in SUBSET (1..MaxFiles) :
          /\ failed \subseteq 1..n
          /\ results' = UploadResults(results, caseId, "raw_uploaded_files",
                 Val("list", RemoteFiles([f \in 1..n |-> f], "raw_uploaded_files", failed)))
          /\ callLog' = Append(callLog, UploadCall("raw_uploaded_files",
                 RemoteFiles([f \in 1..n |-> f], "raw_uploaded_files", failed)))
          /\ loc' = [loc EXCEPT !.uploaded_files = n, !.file = 1]
    /\ pc' = "process_uploaded_files"
    /\ UNCHANGED <<caseId, conversation_history, ext, extRet, flushes, outcome>>
    /\ UNCHANGED vvars

\* lines 255-268: one pass of the loop: no image, or the images of this file
\* are uploaded in their own call and appended to the local list
ProcessOneFile ==
    /\ pc = "process_uploaded_files"
    /\ loc.file \in 1..loc.uploaded_files
    /\ \E n \in 0..MaxImages, failed \in SUBSET (1..MaxImages) :
          /\ failed \subseteq 1..n
          /\ IF n = 0
             THEN /\ failed = {}
                  /\ loc' = [loc EXCEPT !.file = loc.file + 1]
                  /\ UNCHANGED <<results, callLog>>
             ELSE /\ results' = UploadResults(results, caseId, "processed_images",
                         Val("list", RemoteFiles(OutputPaths(loc.file, n),
                                                 "processed_images", failed)))
                  /\ callLog' = Append(callLog, UploadCall("processed_images",
                         RemoteFiles(OutputPaths(loc.file, n), "processed_images", failed)))
                  /\ loc' = [loc EXCEPT !.file = loc.file + 1,
                                        !.image_files = loc.image_files \o
                                                         OutputPaths(loc.file, n)]
    /\ UNCHANGED <<pc, caseId, conversation_history, ext, extRet, flushes, outcome>>
    /\ UNCHANGED vvars

\* lines 270-275: the loop is over and the local list is returned, or an
\* exception inside the try block is caught and an empty list is returned
ProcessUploadedFilesReturns ==
    /\ pc = "process_uploaded_files"
    /\ \/ /\ loc.file = loc.uploaded_files + 1
          /\ UNCHANGED loc
       \/ /\ loc.file \in 1..loc.uploaded_files
          /\ loc' = [loc EXCEPT !.image_files = << >>]
    /\ pc' = "uploaded"
    /\ UNCHANGED <<caseId, results, conversation_history, ext, extRet,
                   callLog, flushes, outcome>>
    /\ UNCHANGED vvars

NextUpload ==
    \/ UploadRawFiles
    \/ ProcessOneFile
    \/ ProcessUploadedFilesReturns

SpecUpload == Init /\ [][NextUpload]_vars

(***************************************************************************)
(* analyze_document on its own                                             *)
(* (src/documentintelligence/document_intelligence_helper.py, 88-214)      *)
(***************************************************************************)
MaxSegments == 2

\* a str argument is a sequence of segments, so that a prefix test and a
\* substring test are computed on it; a bytes argument has no text
Segments ==
    {"http://", "https://", "HTTPS://", "blob.core.windows.net",
     "example.com/policy.pdf", "/tmp/policy.pdf"}
DocumentInputs ==
    { [bytes |-> TRUE, text |-> << >>] } \cup
    { [bytes |-> FALSE, text |-> t] :
        t \in UNION { [1..n -> Segments] : n \in 1..MaxSegments } }
OutputFormats == {"None", "", "markdown"}
ModelTypes == {"prebuilt-layout", "prebuilt-invoice"}

\* str.startswith (lines 159, 161) and the `in` test (line 164)
StartsWith(text, prefix) == Len(text) >= 1 /\ text[1] = prefix
Contains(text, part) == \E i \in DOMAIN text : text[i] = part

\* a blob URL is handed to the service as a URL
DispatchBlobByUrl(document_input) ==
    IF document_input.bytes THEN "bytes"
    ELSE IF StartsWith(document_input.text, "http://") THEN "http"
    ELSE IF StartsWith(document_input.text, "https://") THEN "url"
    ELSE "file"

\* lines 146-199: the branch taken for an input
Dispatch(document_input) ==
    IF document_input.bytes THEN "bytes"
    ELSE IF StartsWith(document_input.text, "http://") THEN "http"
    ELSE IF StartsWith(document_input.text, "https://")
         THEN IF Contains(document_input.text, "blob.core.windows.net")
              THEN "blob" ELSE "url"
    ELSE "file"

\* line 155 (177-179, 195, 210): output_format if output_format else "text"
OutputContentFormat(output_format) ==
    IF output_format \in {"None", ""} THEN "text" ELSE output_format

AnalyzeDocumentCall(document_input, model_type, output_format, res) ==
    [call |-> "analyze_document", res |-> res, prompt |-> "",
     document_input |-> document_input, model_type |-> model_type,
     output_format |-> output_format]
\* the request handed to begin_analyze_document
BeginAnalyze(source, model_type, output_format, res) ==
    [call |-> "begin_analyze_document", res |-> res, prompt |-> "",
     source |-> source, model_id |-> model_type,
     output_content_format |-> OutputContentFormat(output_format)]

\* the calls of one branch, with what the collaborators did: got = what the
\* download or the file read gave, res = how the request and its poller ended
BranchCalls(branch, model_type, output_format, got, res) ==
    CASE branch = "bytes" ->
            << BeginAnalyze("bytes_source", model_type, output_format, res) >>
      [] branch = "http" -> << >>
      [] branch = "blob" ->
            IF got = "raise" THEN << Entry("download", "raise") >>
            ELSE << Entry("download", got),
                    BeginAnalyze("bytes_source", model_type, output_format, res) >>
      [] branch = "url" ->
            << BeginAnalyze("url_source", model_type, output_format, res) >>
      [] branch = "file" ->
            IF got = "raise" THEN << Entry("open", "raise") >>
            ELSE << Entry("open", "bytes"),
                    BeginAnalyze("bytes_source", model_type, output_format, res) >>

\* how the call ends: line 162 raises ValueError, an exception of a
\* collaborator propagates, or line 214 returns the poller's result
CallResult(branch, got, res) ==
    IF branch = "http" THEN "ValueError"
    ELSE IF branch \in {"blob", "file"} /\ got = "raise" THEN "raise"
    ELSE res

\* lines 88-214: one call of analyze_document
analyze_document(document_input, model_type, output_format) ==
    /\ pc = "idle"
    /\ \E got \in {"bytes", "None", "raise"}, res \in {"result", "raise"} :
          /\ (got = "None") => (Dispatch(document_input) = "blob")
          /\ callLog' =
                << AnalyzeDocumentCall(document_input, model_type, output_format,
                       CallResult(Dispatch(document_input), got, res)) >>
                \o BranchCalls(Dispatch(document_input), model_type,
                               output_format, got, res)
          /\ pc' = IF CallResult(Dispatch(document_input), got, res) = "result"
                   THEN "returned" ELSE "raised"
    /\ UNCHANGED <<caseId, results, conversation_history, ext, extRet, loc,
                   flushes, outcome>>
    /\ UNCHANGED vvars

NextAnalyze ==
    \E document_input \in DocumentInputs, model_type \in ModelTypes,
       output_format \in OutputFormats :
          analyze_document(document_input, model_type, output_format)

SpecAnalyze == Init /\ [][NextAnalyze]_vars

(***************************************************************************)
(* extract_all_data on its own (lines 528-551), with extraction paths      *)
(* whose except clause can itself raise                                    *)
(***************************************************************************)
\* lines 533-539: the three coroutines are created and handed to gather
CallExtractAllData ==
    /\ pc = "idle"
    /\ ext' = [p \in Paths |-> "running"]
    /\ callLog' = callLog \o << Entry("extract", "patient"),
                                Entry("extract", "physician"),
                                Entry("extract", "clinician") >>
    /\ pc' = "extract"
    /\ UNCHANGED <<caseId, results, conversation_history, extRet, loc, flushes,
                   outcome>>
    /\ UNCHANGED vvars

\* lines 458-460: a statement of the path's except clause raises, so the
\* exception leaves the path; gather (537-539) raises it at once into the
\* try block of extract_all_data while the other paths stay pending
PathHandlerRaises ==
    /\ pc = "extract"
    /\ \E p \in Paths :
          /\ ext[p] = "running"
          /\ ext' = [ext EXCEPT ![p] = "escaped"]
    /\ pc' = "except_all"
    /\ UNCHANGED <<caseId, results, conversation_history, extRet, loc, callLog,
                   flushes, outcome>>
    /\ UNCHANGED vvars

ExtractAllDataReraises ==
    /\ pc = "except_all"
    /\ Raise("extraction")
    /\ UNCHANGED <<caseId, results, conversation_history, ext, extRet, callLog,
                   flushes, outcome>>
    /\ UNCHANGED vvars

\* lines 545-551: except Exception: log, return the three default instances
ExtractAllDataCatch ==
    /\ pc = "except_all"
    /\ IF \E p \in Paths : ConstructFails(SchemaOf(p), EmptyMap)
       THEN /\ Raise("extraction")
            /\ UNCHANGED extRet
       ELSE /\ extRet' = [p \in Paths |-> DefaultInstance(SchemaOf(p))]
            /\ pc' = "degraded"
            /\ UNCHANGED loc
    /\ UNCHANGED <<caseId, results, conversation_history, ext, callLog,
                   flushes, outcome>>
    /\ UNCHANGED vvars

NextJoin ==
    \/ CallExtractAllData
    \/ ExtractSettle
    \/ ExtractJoin
    \/ PathHandlerRaises
    \/ ExtractAllDataCatch

SpecJoin == Init /\ [][NextJoin]_vars

(***************************************************************************)
(* Properties                                                              *)
(***************************************************************************)
CaseData == IF caseId \in DOMAIN results THEN results[caseId] ELSE EmptyMap
HistorySteps == { conversation_history[i] : i \in DOMAIN conversation_history }
Returned == pc = "done"

\* C1 (as stated): every invocation of run() executes store_output exactly
\* once before it returns.
C1_FlushOncePerInvocation ==
    Returned => Len(flushes) = 1

\* C1 (amended): every invocation of run() that passes the empty-input guard
\* executes store_output exactly once, as the last step before run() returns,
\* whether the run completed, was silently stopped or failed; an invocation
\* without files returns without executing it.
C1_FlushOnceWhenFilesGiven ==
    /\ Len(flushes) <= 1
    /\ Len(flushes) = 1 => Returned
    /\ Returned /\ outcome \in {"completed", "stopped", "failed"} => Len(flushes) = 1
    /\ Returned /\ outcome = "no_files" => Len(flushes) = 0
    /\ Returned => outcome \in {"completed", "stopped", "failed", "no_files"}

C1_Witness ==
    /\ Returned
    /\ outcome = "failed"
    /\ loc.raised = "determination"
    /\ Len(flushes) = 1

\* C2: once locate_policy has returned one of the two sentinels, run() stops
\* without raising and without retrying: no download, document analysis,
\* summarization or determination call is issued, and the flush hands the
\* data accumulated by extraction and query expansion to the durable store.
C2_SentinelStopsSilently ==
    (/\ loc.searched # "no"
     /\ loc.policy_location \in {"No results found", "Error locating policy"})
    => /\ pc \in {"located", "finally", "done"}
       /\ loc.raised = "none"
       /\ outcome # "failed" /\ outcome # "completed"
       /\ Count("log_failure") = 0
       /\ Count("download") = 0 /\ Count("analyze") = 0
       /\ Count("summarize") = 0
       /\ Count("primary") = 0 /\ Count("secondary") = 0
       /\ Count("query_expansion") = 1 /\ Count("search") <= 1
       /\ Returned =>
            /\ outcome = "stopped"
            /\ Len(flushes) = 1
            /\ Count("upsert") = 1
            /\ \A p \in Paths : ext[p] = "ok" =>
                  \A n \in DOMAIN extRet[p] :
                     n \in DOMAIN flushes[1] /\ flushes[1][n] = extRet[p][n]
            /\ \/ "optimized_query" \in DOMAIN flushes[1]
               \/ "query" \in DOMAIN flushes[1]
            /\ "raw_uploaded_files" \in DOMAIN flushes[1]

C2_Witness ==
    /\ Returned
    /\ outcome = "stopped"
    /\ loc.policy_location = "No results found"
    /\ \A p \in Paths : ext[p] = "ok"
    /\ "optimized_query" \in DOMAIN flushes[1]

\* C3 (as stated): locate_policy returns the parent-path attribute of the
\* first candidate whenever the search returns at least one candidate, "No
\* results found" for zero candidates, "Error locating policy" on any
\* exception.
C3_ParentPathOfFirstCandidate ==
    pc = "located" =>
       /\ loc.searched = "raised" => loc.policy_location = "Error locating policy"
       /\ loc.searched = "returned" /\ Len(loc.hits) = 0 =>
             loc.policy_location = "No results found"
       /\ loc.searched = "returned" /\ Len(loc.hits) >= 1 =>
             /\ "parent_path" \in DOMAIN loc.hits[1]
             /\ loc.policy_location = loc.hits[1]["parent_path"]

\* C3 (amended): locate_policy never raises and returns the parent-path
\* attribute of the first candidate in rank order when that candidate carries
\* the attribute, "Path not found" when the first candidate carries no such
\* attribute, "No results found" for zero candidates, and "Error locating
\* policy" when an exception occurs while building or issuing the search.
C3_FirstCandidateOrPathNotFound ==
    /\ loc.raised # "locate_policy"
    /\ pc = "located" =>
       /\ loc.raised = "none"
       /\ loc.searched \in {"raised", "returned"}
       /\ loc.searched = "raised" => loc.policy_location = "Error locating policy"
       /\ loc.searched = "returned" /\ Len(loc.hits) = 0 =>
             loc.policy_location = "No results found"
       /\ loc.searched = "returned" /\ Len(loc.hits) >= 1 =>
             IF "parent_path" \in DOMAIN loc.hits[1]
             THEN loc.policy_location = loc.hits[1]["parent_path"]
             ELSE loc.policy_location = "Path not found"

C3_Witness ==
    /\ pc = "located"
    /\ loc.searched = "returned"
    /\ Len(loc.hits) = 2
    /\ "parent_path" \in DOMAIN loc.hits[1]
    /\ "parent_path" \in DOMAIN loc.hits[2]
    /\ loc.hits[1]["parent_path"] # loc.hits[2]["parent_path"]
    /\ loc.policy_location = loc.hits[1]["parent_path"]

\* the record a path hands back when it degrades: every field at its
\* declared default
AllDefaultRecord(p) ==
    CASE p = "patient"   -> [patient_name |-> Val("str", "Not provided")]
      [] p = "physician" -> [physician_name |-> Val("str", "Not provided")]
      [] p = "clinician" -> [diagnosis |-> Val("str", "Not provided"),
                             treatment_request |-> Val("TreatmentRequest", "factory()")]

\* C4: in every interleaving of the three extraction calls, a path that
\* raises yields its schema's all-default record and merges nothing, every
\* path that returns has its validated record and its conversation turns in
\* the Case whatever its siblings did, and the stage never raises.
C4_IndependentDegradation ==
    /\ loc.raised # "extraction"
    /\ pc \in {"extract", "query_expansion"} =>
         \A p \in Paths :
            /\ ext[p] \in {"failed", "rejected"} => extRet[p] = AllDefaultRecord(p)
            /\ ext[p] = "ok" =>
                  /\ DOMAIN extRet[p] = DOMAIN AllDefaultRecord(p)
                  /\ \A n \in DOMAIN extRet[p] :
                        \/ extRet[p][n] = AllDefaultRecord(p)[n]
                        \/ extRet[p][n].v = "input"
                  /\ \A n \in DOMAIN extRet[p] :
                        n \in DOMAIN CaseData /\ CaseData[n] = extRet[p][n]
                  /\ StepOf(p) \in HistorySteps
    /\ pc = "query_expansion" =>
         \A p \in Paths : ext[p] \in {"ok", "failed", "rejected"}

C4_Witness ==
    /\ pc = "query_expansion"
    /\ ext["clinician"] = "failed"
    /\ ext["patient"] = "ok"
    /\ ext["physician"] = "ok"
    /\ conversation_history = << "physician_information_extraction",
                                 "patient_information_extraction" >>

\* C5: when the policy download yields no bytes, get_policy_text_from_blob
\* returns the empty string without raising and the run is not halted:
\* policy_location is logged together with the empty policy_text and the
\* determination stage is entered.
NoBytesDownloaded == \E i \in DOMAIN callLog : callLog[i] = Entry("download", "None")

C5_EmptyDownloadDegrades ==
    NoBytesDownloaded =>
       /\ loc.policy_text = ""
       /\ loc.raised # "materialization"
       /\ outcome # "stopped"
       /\ Count("analyze") = 0
       /\ "policy_text" \in DOMAIN CaseData /\ CaseData["policy_text"] = Val("str", "")
       /\ "policy_location" \in DOMAIN CaseData
       /\ CaseData["policy_location"] = Val("str", loc.policy_location)
       /\ pc \in {"primary", "primary_summarize", "primary_retry", "secondary",
                  "secondary_summarize", "secondary_retry", "except", "finally", "done"}
       /\ pc \in {"except", "finally", "done"} =>
             Count("primary") + Count("secondary") >= 1

C5_Witness ==
    /\ NoBytesDownloaded
    /\ Returned
    /\ outcome = "completed"
    /\ CaseData["policy_text"] = Val("str", "")

FirstOf(S) == CHOOSE i \in S : \A j \in S : i <= j
LastOf(S)  == CHOOSE i \in S : \A j \in S : j <= i
FirstPrimary == FirstOf(Calls("primary"))
\* summarization sub-calls issued before any secondary-backend call
PathASummaries ==
    { j \in Calls("summarize") : \A k \in Calls("secondary") : j < k }

\* C6 (as stated): on Path A a "maximum context length" response triggers
\* exactly one summarization sub-call followed by exactly one further
\* primary-backend call with the prompt rebuilt from the summary; at most two
\* primary-backend calls per run.
C6_ContextLengthAlwaysRetriesPrimary ==
    /\ Count("primary") <= 2
    /\ (/\ Calls("primary") # {}
        /\ callLog[FirstPrimary].res = "maximum context length"
        /\ pc # "primary_summarize")
       => /\ FirstPrimary + 1 \in Calls("summarize")
          /\ PathASummaries = {FirstPrimary + 1}
          /\ pc # "primary_retry" =>
                /\ FirstPrimary + 2 \in Calls("primary")
                /\ callLog[FirstPrimary + 2].prompt = "summary"
                /\ Count("primary") = 2

\* C6 (amended): on Path A a "maximum context length" response to the first
\* primary-backend call triggers exactly one summarization sub-call; when that
\* sub-call returns a summary it is followed by exactly one further
\* primary-backend call with the prompt rebuilt from the summary, and when the
\* sub-call fails no further primary-backend call is made (the stage falls
\* back to Path B); Path A never issues more than two primary-backend calls.
C6_OneSummarizedRetryWhenSummaryReturns ==
    /\ Count("primary") <= 2
    /\ Calls("primary") # {} => callLog[FirstPrimary].prompt = "policy_text"
    /\ Count("primary") = 2 =>
          callLog[FirstPrimary].res = "maximum context length"
    /\ (/\ Calls("primary") # {}
        /\ callLog[FirstPrimary].res = "maximum context length"
        /\ pc # "primary_summarize")
       => /\ FirstPrimary + 1 \in Calls("summarize")
          /\ PathASummaries = {FirstPrimary + 1}
          /\ callLog[FirstPrimary + 1].res = "response" /\ pc # "primary_retry" =>
                /\ FirstPrimary + 2 \in Calls("primary")
                /\ callLog[FirstPrimary + 2].prompt = "summary"
                /\ Count("primary") = 2
          /\ callLog[FirstPrimary + 1].res = "raise" =>
                /\ Count("primary") = 1
                /\ loc.use_o1 = FALSE
                /\ FirstPrimary + 2 \in DOMAIN callLog =>
                      callLog[FirstPrimary + 2].call = "secondary"

C6_Witness ==
    /\ Returned
    /\ outcome = "completed"
    /\ Count("primary") = 2
    /\ Count("summarize") = 1
    /\ Count("secondary") = 0
    /\ callLog[FirstPrimary].res = "maximum context length"
    /\ callLog[FirstPrimary + 2].res = "response"

\* the first secondary-backend call of each Path B attempt
AttemptStarts == { i \in Calls("secondary") : callLog[i].prompt = "policy_text" }
PathBFailure(i) ==
    /\ callLog[i].res = "raise"
    /\ callLog[i].call \in {"secondary", "summarize"}
    /\ AttemptStarts # {}
    /\ i >= FirstOf(AttemptStarts)

\* C7: Path B makes at most 2 attempts; an exception on attempt 1 leads to
\* attempt 2; an exception on attempt 2 is re-raised out of
\* generate_final_determination, caught at the run boundary, and no
\* final_determination is logged to the Case.
C7_SecondaryRetriesThenRaises ==
    /\ Cardinality(AttemptStarts) <= 2
    /\ loc.attempt <= 2
    /\ \A i \in DOMAIN callLog :
          PathBFailure(i) =>
             IF \A j \in AttemptStarts : j <= i => j = FirstOf(AttemptStarts)
             THEN \* the exception of attempt 1
                  \/ i = Len(callLog) /\ pc = "secondary" /\ loc.attempt = 2
                  \/ i + 1 \in AttemptStarts
             ELSE \* the exception of attempt 2
                  /\ loc.raised = "determination"
                  /\ pc \in {"except", "finally", "done"}
                  /\ "final_determination" \notin DOMAIN CaseData
                  /\ outcome # "completed"
                  /\ pc \in {"finally", "done"} =>
                        /\ callLog[i + 1] = Entry("log_failure", "determination")
                        /\ Count("log_failure") = 1
                        /\ outcome = "failed"

C7_Witness ==
    /\ Returned
    /\ outcome = "failed"
    /\ Count("primary") = 0
    /\ Cardinality(AttemptStarts) = 2
    /\ \A i \in AttemptStarts : callLog[i].res = "raise"
    /\ Count("secondary") = 2

\* C8: in a run where all three extractions succeed, the search hit's parent
\* path is P, materialization returns text T and the determination call
\* returns R, the document handed to the durable store holds the keys of the
\* three extraction records, policy_location = P, policy_text = T,
\* final_determination = R and the case id field.
C8_CompletedRunDocument ==
    (/\ Returned
     /\ outcome = "completed"
     /\ \A p \in Paths : ext[p] = "ok"
     /\ loc.policy_location \in ParentPaths
     /\ \E i \in DOMAIN callLog : callLog[i].call = "analyze" /\ callLog[i].res = "ok")
    => /\ Len(flushes) = 1
       /\ Count("upsert") = 1
       /\ \A p \in Paths : \A n \in SchemaNames(SchemaOf(p)) :
             n \in DOMAIN flushes[1] /\ flushes[1][n] = extRet[p][n]
       /\ loc.policy_text \in PolicyTexts
       /\ loc.final_response \in Determinations
       /\ {"policy_location", "policy_text", "final_determination", "caseId"}
             \subseteq DOMAIN flushes[1]
       /\ flushes[1]["policy_location"] = Val("str", loc.policy_location)
       /\ flushes[1]["policy_text"] = Val("str", loc.policy_text)
       /\ flushes[1]["final_determination"] = Val("str", loc.final_response)
       /\ flushes[1]["caseId"] = Val("str", caseId)

C8_Witness ==
    /\ Returned
    /\ outcome = "completed"
    /\ \A p \in Paths : ext[p] = "ok"
    /\ loc.policy_location = "policies/asthma-v2"
    /\ loc.final_response = "APPROVED"
    /\ loc.policy_text = "policy markdown"
    /\ Len(flushes) = 1
    /\ flushes[1]["final_determination"] = Val("str", "APPROVED")

\* the type-keyed fallback as the specification lists it
ClaimedFallback(t) ==
    CASE t = "str"   -> Val("str", "Not provided")
      [] t = "int"   -> Val("int", "0")
      [] t = "float" -> Val("float", "0.0")
      [] t = "bool"  -> Val("bool", "False")
      [] t = "list"  -> Val("list", "[]")
      [] t = "dict"  -> Val("dict", "{}")
      [] OTHER       -> Val("NoneType", "None")

ExternalKey(fd) == IF fd.alias # "" THEN fd.alias ELSE fd.name
\* the raw mapping holds no value of the declared type for the field
MissingOrInvalid(fd) ==
    \/ ExternalKey(fd) \notin DOMAIN vraw
    \/ vraw[ExternalKey(fd)].t # fd.annotation

\* the schema declares a static default / a default factory for the field
DeclaresDefault(fd) == fd.default # Val("PydanticUndefinedType", "PydanticUndefined")
DeclaresFactory(fd) == fd.default_factory # "None"

ClaimedSubstitutes(fd) ==
    (IF DeclaresDefault(fd) THEN {fd.default} ELSE {})
    \cup (IF DeclaresFactory(fd)
          THEN {Val(fd.default_factory, "factory()")} ELSE {})
    \cup {ClaimedFallback(fd.annotation)}

\* C9: the record the validator returns holds a value for exactly the fields
\* the schema declares: a field missing from or invalid in the raw mapping
\* holds its declared default (or its factory's result) or the type-keyed
\* fallback, a field given a value of its type holds a value of its type, and
\* keys the schema does not declare are ignored.
C9_EveryDeclaredFieldPresent ==
    vstate = "returned" =>
       /\ DOMAIN vresult = { vschema[i].name : i \in DOMAIN vschema }
       /\ UndeclaredKey \in DOMAIN vraw /\ UndeclaredKey \notin DOMAIN vresult
       /\ \A i \in DOMAIN vschema :
             IF MissingOrInvalid(vschema[i])
             THEN vresult[vschema[i].name] \in ClaimedSubstitutes(vschema[i])
             ELSE vresult[vschema[i].name].t = vschema[i].annotation

\* the substitute the priority order of the specification selects
ClaimedSubstitute(fd) ==
    IF DeclaresDefault(fd) /\ fd.default # Val("NoneType", "None") THEN fd.default
    ELSE IF DeclaresFactory(fd) THEN Val(fd.default_factory, "factory()")
    ELSE ClaimedFallback(fd.annotation)

\* C10: a field that fails single-field validation takes its declared static
\* default if it has one, otherwise its default factory's result if it has
\* one, otherwise the fallback keyed by its type; a string field with neither
\* takes "Not provided".
C10_SubstitutePriority ==
    vstate \in {"returned", "raised", "attribute_error"} =>
       \A i \in DOMAIN vschema :
          vschema[i].name \in vfailed =>
             /\ vschema[i].name \in DOMAIN vdata
             /\ vdata[vschema[i].name] = ClaimedSubstitute(vschema[i])

\* C11 as stated: once the validator has raised on a path's final record
\* construction, the run is at its boundary handler or has failed in the
\* extraction stage.
C11_ValidatorFailureReachesRunBoundary ==
    \A p \in Paths :
       ext[p] = "rejected" =>
          \/ pc = "except"
          \/ pc \in {"finally", "done"} /\ outcome = "failed" /\ loc.raised = "extraction"

\* C11: when the validator raises on a path's final record construction, the
\* path's own handler catches it: the path hands back its schema's
\* all-default record, merges none of its fields and appends no conversation
\* turns, and the extraction stage does not raise to the run boundary.
C11_ValidatorFailureDegradesInPath ==
    \A p \in Paths :
       ext[p] = "rejected" =>
          /\ extRet[p] = AllDefaultRecord(p)
          /\ \A n \in DOMAIN AllDefaultRecord(p) : n \notin DOMAIN CaseData
          /\ StepOf(p) \notin HistorySteps
          /\ loc.raised # "extraction"

C11_Witness ==
    /\ pc = "query_expansion"
    /\ ext["clinician"] = "rejected"
    /\ ext["patient"] = "ok"
    /\ "patient_name" \in DOMAIN CaseData

\* C12: when a stage raises inside run(), the failure is logged exactly once
\* by the run boundary's handler, the teardown flush has not run when it is
\* logged and runs once afterwards, and the flushed document holds, with
\* their values, all keys the Case held when the stage raised.
C12_FailureLoggedThenFlushed ==
    /\ [](loc.raised # "none" =>
            /\ pc \in {"except", "finally", "done"}
            /\ pc = "except" => Count("log_failure") = 0 /\ flushes = << >>
            /\ pc = "finally" => Count("log_failure") = 1 /\ flushes = << >>
            /\ pc = "done" =>
                  /\ Count("log_failure") = 1
                  /\ Len(flushes) = 1
                  /\ \A i \in Calls("upsert") : FirstOf(Calls("log_failure")) < i
                  /\ \A k \in DOMAIN CaseData :
                        k \in DOMAIN flushes[1] /\ flushes[1][k] = CaseData[k])
    /\ [][(pc \in {"except", "finally"}) => (CaseData' = CaseData)]_vars

C12_Witness ==
    /\ pc = "done"
    /\ loc.raised = "materialization"
    /\ Count("log_failure") = 1
    /\ Count("upsert") = 1
    /\ {"raw_uploaded_files", "patient_name", "optimized_query"} \subseteq DOMAIN flushes[1]

\* C13: every store_output call leaves the results unchanged and, when the
\* current case holds at least one key, upserts under the case id one
\* document made of every key of the case with its value plus the case id
\* field; when the case holds nothing it issues the warning and no upsert.
C13_FlushUpsertsCaseDocument ==
    [][(Len(flushes') = Len(flushes) + 1) =>
          /\ results' = results
          /\ Len(callLog') = Len(callLog) + 1
          /\ IF caseId \in DOMAIN results /\ DOMAIN results[caseId] # {}
             THEN /\ callLog'[Len(callLog')].call = "upsert"
                  /\ callLog'[Len(callLog')].res = caseId
                  /\ DOMAIN flushes'[Len(flushes')] =
                        DOMAIN results[caseId] \cup {"caseId"}
                  /\ flushes'[Len(flushes')]["caseId"] = Val("str", caseId)
                  /\ \A k \in DOMAIN results[caseId] \ {"caseId"} :
                        flushes'[Len(flushes')][k] = results[caseId][k]
             ELSE /\ callLog'[Len(callLog')].call = "warning"
                  /\ flushes'[Len(flushes')] = EmptyMap]_vars

C13_Witness ==
    /\ caseId = "case-2"
    /\ DOMAIN results = {"case-1", "case-2"}
    /\ Len(flushes) = 1
    /\ flushes[1] = ("a" :> Val("str", "y") @@ "b" :> Val("str", "z")
                      @@ "caseId" :> Val("str", "case-2"))
    /\ callLog = << [call |-> "upsert", res |-> "case-2", prompt |-> ""] >>

\* the result entry of case id c, empty when the case has none
EntryOf(r, c) == IF c \in DOMAIN r THEN r[c] ELSE EmptyMap

\* C14: a call log_output(data, turns, step) leaves the current case id with
\* an entry that holds every key of data with data's value and every other
\* key it held before with its old value; it appends exactly one entry to
\* the conversation log when a turn list is supplied and none when the
\* argument is omitted; the entries of all other case ids are unchanged.
C14_LogOutputMergesIntoCurrentCase ==
    [][\A data \in DataArgs, turns \in TurnArgs, step \in StepArgs :
          log_output(data, turns, step) =>
             /\ DOMAIN results' = DOMAIN results \cup {caseId}
             /\ DOMAIN results'[caseId] =
                   DOMAIN EntryOf(results, caseId) \cup DOMAIN data
             /\ \A k \in DOMAIN data : results'[caseId][k] = data[k]
             /\ \A k \in DOMAIN EntryOf(results, caseId) \ DOMAIN data :
                   results'[caseId][k] = results[caseId][k]
             /\ turns = "[turns]" =>
                   /\ Len(conversation_history') = Len(conversation_history) + 1
                   /\ SubSeq(conversation_history', 1, Len(conversation_history))
                         = conversation_history
             /\ turns = "None" => conversation_history' = conversation_history
             /\ \A c \in DOMAIN results \ {caseId} : results'[c] = results[c]]_vars

C14_Witness ==
    /\ caseId = "case-2"
    /\ DOMAIN results = {"case-1", "case-2"}
    /\ results["case-1"] = ("a" :> Val("str", "x"))
    /\ results["case-2"] = ("a" :> Val("str", "y") @@ "b" :> Val("str", "z"))
    /\ conversation_history = << "policy_extraction" >>

\* the keys of the Case whose value a step changes
Overwritten == { k \in DOMAIN CaseData \cap DOMAIN CaseData' : CaseData'[k] # CaseData[k] }
\* a summarization step writing the summary again
RewritesSummary(k) ==
    k = "summary_policy" /\ pc \in {"primary_summarize", "secondary_summarize"}

C16_RecordUnderStageKey ==
    \A p \in Paths :
       ext[p] = "ok" =>
          /\ DOMAIN extRet[p] \cap DOMAIN CaseData = {}
          /\ \E k \in DOMAIN CaseData : CaseData[k] = extRet[p]

\* the stage an external call belongs to, in the order of the stages
StageRank(call) ==
    CASE call = "extract"         -> 1
      [] call = "query_expansion" -> 2
      [] call = "search"          -> 2
      [] call \in {"download", "analyze"} -> 3
      [] call \in {"primary", "secondary", "summarize"} -> 4
      [] OTHER -> 5

\* C17: the calls of one run are issued in stage order (extraction, query
\* expansion and search, materialization, determination); the query-expansion
\* call is issued only when all three extractions have settled, a download or
\* document analysis only when locate_policy has returned a location that is
\* not a sentinel, and a determination call only when policy_location and
\* policy_text are in the Case.
C17_StagesInOrder ==
    /\ \A i \in 1..(Len(callLog) - 1) :
          StageRank(callLog[i].call) <= StageRank(callLog[i + 1].call)
    /\ \A i \in Calls("search") : \A j \in Calls("query_expansion") : j < i
    /\ Count("query_expansion") >= 1 =>
          /\ Count("extract") = 3
          /\ \A p \in Paths : ext[p] \in {"ok", "failed", "rejected"}
    /\ Count("download") + Count("analyze") >= 1 =>
          /\ loc.searched = "returned"
          /\ Count("search") = 1
          /\ loc.policy_location \notin {"No results found", "Error locating policy"}
    /\ Count("primary") + Count("secondary") + Count("summarize") >= 1 =>
          /\ Count("download") = 1
          /\ {"policy_location", "policy_text"} \subseteq DOMAIN CaseData
          /\ CaseData["policy_location"] = Val("str", loc.policy_location)
          /\ CaseData["policy_text"] = Val("str", loc.policy_text)

C17_Witness ==
    /\ Returned
    /\ outcome = "completed"
    /\ Count("extract") = 3
    /\ Count("query_expansion") = 1
    /\ Count("search") = 1
    /\ Count("download") = 1
    /\ Count("analyze") = 1
    /\ Count("primary") = 1
    /\ Len(callLog) = 9

\* the record of path p and its conversation turns are in the Case
Merged(p) ==
    /\ \A n \in DOMAIN AllDefaultRecord(p) :
          n \in DOMAIN CaseData /\ CaseData[n] = extRet[p][n]
    /\ StepOf(p) \in HistorySteps
\* nothing of path p is in the Case
NothingMerged(p) ==
    /\ \A n \in DOMAIN AllDefaultRecord(p) : n \notin DOMAIN CaseData
    /\ StepOf(p) \notin HistorySteps

\* C18: the three extraction calls are launched in one step, the run leaves
\* the extraction stage only when all three have settled, and in every state
\* of every interleaving each path's record is either merged whole, with its
\* turns, or not at all; one step completes at most one path.
C18_JoinAfterAllAndAtomicMerges ==
    /\ []((\E p \in Paths : ext[p] # "idle") => (\A p \in Paths : ext[p] # "idle"))
    /\ [](pc \notin {"idle", "process_uploaded_files", "extract"}
            /\ (\E p \in Paths : ext[p] # "idle")
          => \A p \in Paths : ext[p] \in {"ok", "failed", "rejected"})
    /\ [](\A p \in Paths : IF ext[p] = "ok" THEN Merged(p) ELSE NothingMerged(p))
    /\ [][Cardinality({ p \in Paths : ext'[p] # ext[p] /\ ext[p] = "running" }) <= 1]_vars

C18_Witness ==
    /\ pc = "extract"
    /\ ext["clinician"] = "ok"
    /\ ext["physician"] = "running"
    /\ ext["patient"] = "ok"
    /\ conversation_history = << "clinical_information_extraction",
                                 "patient_information_extraction" >>
    /\ {"diagnosis", "treatment_request", "patient_name"} \subseteq DOMAIN CaseData
    /\ "physician_name" \notin DOMAIN CaseData

\* a call of Path A that ended in an exception: a primary-backend call, or
\* the summarization sub-call issued before any secondary-backend call
PathAFailure(i) ==
    /\ callLog[i].res = "raise"
    /\ \/ callLog[i].call = "primary"
       \/ callLog[i].call = "summarize" /\ \A k \in Calls("secondary") : i < k

\* C19: an exception raised by the first primary-backend call, by the
\* summarization sub-call of Path A or by the summarized retry is not
\* propagated: the next call is the first attempt of Path B with the full
\* prompt, and no primary-backend call follows a secondary-backend call or
\* the exception.
C19_PathAExceptionFallsBack ==
    /\ \A j \in Calls("primary"), k \in Calls("secondary") : j < k
    /\ \A i \in DOMAIN callLog :
          PathAFailure(i) =>
             /\ loc.use_o1 = FALSE
             /\ \A j \in Calls("primary") : j <= i
             /\ IF i = Len(callLog)
                THEN pc = "secondary" /\ loc.attempt = 1 /\ loc.raised = "none"
                ELSE /\ callLog[i + 1].call = "secondary"
                     /\ callLog[i + 1].prompt = "policy_text"

C19_Witness ==
    /\ Returned
    /\ outcome = "completed"
    /\ Count("primary") = 2
    /\ callLog[LastOf(Calls("primary"))].res = "raise"
    /\ callLog[LastOf(Calls("primary"))].prompt = "summary"
    /\ Count("secondary") = 1
    /\ callLog[LastOf(Calls("secondary"))].res = "response"

EmptyTextReturned ==
    \E i \in DOMAIN callLog :
       \/ callLog[i] \in {Entry("download", "None"), Entry("download", "raise")}
       \/ callLog[i].call = "analyze" /\ callLog[i].res = "raise"
NullTextReturned ==
    \E i \in DOMAIN callLog :
        callLog[i].call = "analyze" /\ callLog[i].res = "no_content"
DeterminationCalls == Count("primary") + Count("secondary") + Count("summarize")

\* C21 as stated: whenever materialization returned an empty or missing
\* policy text, run() has raised in the materialization stage and no
\* determination call is issued.
C21_EmptyTextIsRaised ==
    EmptyTextReturned \/ NullTextReturned =>
       /\ loc.raised = "materialization"
       /\ DeterminationCalls = 0

\* C21: a missing policy text (None) returned by materialization is raised
\* by run(): it is caught once at the run boundary, the run ends failed, the
\* policy is not logged and no determination call is issued; an empty string
\* is not raised.
C21_NullTextIsRaised ==
    /\ NullTextReturned =>
          /\ loc.raised = "materialization"
          /\ pc \in {"except", "finally", "done"}
          /\ DeterminationCalls = 0
          /\ "policy_location" \notin DOMAIN CaseData
          /\ Count("log_failure") <= 1
          /\ pc \in {"finally", "done"} =>
                Count("log_failure") = 1 /\ outcome = "failed"
          /\ Returned => Len(flushes) = 1
    /\ EmptyTextReturned => loc.raised # "materialization"

C21_Witness ==
    /\ NullTextReturned
    /\ Returned
    /\ outcome = "failed"
    /\ Count("log_failure") = 1
    /\ "optimized_query" \in DOMAIN flushes[1]

\* the positions of the determination state machine: PrimaryAttempt,
\* SummarizedRetry (its summarization and its retry), SecondaryAttempt(n)
DeterminationStates ==
    {"primary", "primary_summarize", "primary_retry",
     "secondary", "secondary_summarize", "secondary_retry"}
\* a measure that every transition of the determination state machine lowers
DeterminationRank ==
    CASE pc = "primary"             -> 3 * max_retries + 6
      [] pc = "primary_summarize"   -> 3 * max_retries + 5
      [] pc = "primary_retry"       -> 3 * max_retries + 4
      [] pc = "secondary"           -> 3 * (max_retries - loc.attempt) + 3
      [] pc = "secondary_summarize" -> 3 * (max_retries - loc.attempt) + 2
      [] pc = "secondary_retry"     -> 3 * (max_retries - loc.attempt) + 1
      [] OTHER                      -> 0
RunCompleted ==
    /\ outcome = "completed"
    /\ Count("log_failure") = 0
    /\ "final_determination" \in DOMAIN CaseData
\* run() returned without raising and without a determination: at the
\* empty-input guard or at a lookup sentinel
RunSilentlyStopped ==
    /\ outcome \in {"stopped", "no_files"}
    /\ Count("log_failure") = 0
    /\ Count("primary") + Count("secondary") + Count("summarize") = 0
    /\ "final_determination" \notin DOMAIN CaseData
RunFailed ==
    /\ outcome = "failed"
    /\ Count("log_failure") = 1
    /\ "final_determination" \notin DOMAIN CaseData

\* C22: every run whose external calls all return or raise returns, and it
\* has then completed, silently stopped or failed, exactly one of the three;
\* the determination state machine, once entered, reaches Done (the response
\* is logged) or Failed (the exception goes to the run boundary), and each of
\* its transitions lowers a bounded measure, so it has no cycle.
C22_TerminatesInOneOutcome ==
    /\ <>(pc = "done")
    /\ [](Returned =>
            /\ RunCompleted \/ RunSilentlyStopped \/ RunFailed
            /\ ~(RunCompleted /\ RunSilentlyStopped)
            /\ ~(RunCompleted /\ RunFailed)
            /\ ~(RunSilentlyStopped /\ RunFailed))
    /\ (pc \in DeterminationStates) ~> (pc \in {"finally", "except"})
    /\ [][(pc \in DeterminationStates) =>
            /\ DeterminationRank' < DeterminationRank
            /\ (pc' \notin DeterminationStates) =>
                  \/ pc' = "finally" /\ outcome' = "completed"
                  \/ pc' = "except" /\ loc'.raised = "determination"]_vars

C22_Witness ==
    /\ Returned
    /\ outcome = "completed"
    /\ Count("primary") = 2
    /\ Count("summarize") = 2
    /\ Count("secondary") = 3
    /\ loc.attempt = 2

\* the Path B attempts whose first secondary-backend call was answered with
\* the sentinel, and whose handling is over
OverlongAttempts ==
    { i \in AttemptStarts :
        /\ callLog[i].res = "maximum context length"
        /\ ~(i = Len(callLog) /\ pc = "secondary_summarize") }
RetryPending(i) == i + 1 = Len(callLog) /\ pc = "secondary_retry"

\* C23 (as stated): within one Path B attempt a "maximum context length"
\* response is followed by one summarization sub-call and by exactly one more
\* secondary-backend call with the rebuilt prompt, in the same attempt.
C23_ContextLengthAlwaysRetriesSecondary ==
    \A i \in OverlongAttempts :
        /\ i + 1 \in Calls("summarize")
        /\ ~RetryPending(i) =>
              /\ i + 2 \in Calls("secondary")
              /\ callLog[i + 2].prompt = "summary"

\* C23 (amended): within one Path B attempt a "maximum context length"
\* response triggers one summarization sub-call; when it returns a summary,
\* exactly one more secondary-backend call follows with the prompt rebuilt
\* from the summary, inside the same attempt (the attempt counter does not
\* move and no call of this attempt follows the retry); when the sub-call
\* fails, no retry is made and the attempt is over.
C23_OneSummarizedRetryInTheSameAttempt ==
    /\ [](\A i \in OverlongAttempts :
            /\ i + 1 \in Calls("summarize")
            /\ callLog[i + 1].prompt = "policy_text"
            /\ (callLog[i + 1].res = "response" /\ ~RetryPending(i)) =>
                  /\ i + 2 \in Calls("secondary")
                  /\ callLog[i + 2].prompt = "summary"
                  /\ i + 3 \in DOMAIN callLog =>
                        \/ i + 3 \in AttemptStarts /\ callLog[i + 2].res = "raise"
                        \/ callLog[i + 3].call \in {"log_failure", "upsert", "warning"}
            /\ callLog[i + 1].res = "raise" =>
                  (i + 2 \in DOMAIN callLog =>
                      \/ i + 2 \in AttemptStarts
                      \/ callLog[i + 2].call = "log_failure"))
    /\ [](pc \in {"secondary", "secondary_summarize", "secondary_retry"} =>
            /\ loc.attempt \in 1..max_retries
            /\ Cardinality(AttemptStarts) =
                  IF pc = "secondary" THEN loc.attempt - 1 ELSE loc.attempt)
    /\ [][(pc \in {"secondary", "secondary_summarize"} /\
           pc' \in {"secondary_summarize", "secondary_retry"}) =>
             (loc'.attempt = loc.attempt)]_vars

C23_Witness ==
    /\ Returned
    /\ outcome = "completed"
    /\ Count("primary") = 0
    /\ Count("secondary") = 2
    /\ Count("summarize") = 1
    /\ loc.attempt = 1
    /\ callLog[FirstOf(AttemptStarts)].res = "maximum context length"

HasFinalDetermination == "final_determination" \in DOMAIN CaseData
LastCall == callLog[Len(callLog)]

\* C24: final_determination enters the Case only in the step that follows a
\* response payload of a determination path (a primary- or secondary-backend
\* call that ended with a response); its value is that response; once it is
\* there the Case is not written again, so it is written at most once and is
\* the last Case write; the flush is the next step and stores it.
C24_FinalDeterminationWrittenOnceAndLast ==
    /\ [][(HasFinalDetermination' /\ ~HasFinalDetermination) =>
            /\ pc \in DeterminationStates \ {"primary_summarize", "secondary_summarize"}
            /\ LastCall'.call \in {"primary", "secondary"}
            /\ LastCall'.res = "response"
            /\ Len(callLog') = Len(callLog) + 1
            /\ CaseData'["final_determination"] = Val("str", loc'.final_response)
            /\ loc'.final_response \in Determinations
            /\ \A k \in DOMAIN CaseData : CaseData'[k] = CaseData[k]
            /\ DOMAIN CaseData' = DOMAIN CaseData \cup {"final_determination"}
            /\ pc' = "finally"]_vars
    /\ [][(HasFinalDetermination) =>
            /\ results' = results
            /\ pc = "finally" /\ Len(flushes') = 1
            /\ flushes'[1]["final_determination"] = CaseData["final_determination"]]_vars
    /\ [](HasFinalDetermination =>
            /\ outcome = "completed"
            /\ Count("log_failure") = 0
            /\ \E i \in Calls("primary") \cup Calls("secondary") :
                  callLog[i].res = "response")

C24_Witness ==
    /\ Returned
    /\ HasFinalDetermination
    /\ CaseData["final_determination"] = Val("str", "DENIED")
    /\ Len(flushes) = 1
    /\ flushes[1]["final_determination"] = Val("str", "DENIED")
    /\ LastCall.call = "upsert"

NullQueryExpansion ==
    \E i \in DOMAIN callLog : callLog[i] = Entry("query_expansion", "None")
CallsAfterQueryExpansion ==
    Count("search") + Count("download") + Count("analyze") +
    Count("primary") + Count("secondary") + Count("summarize")

\* C25: when the query-expansion call yields a null result, an exception
\* goes to the run boundary, where it is caught and logged once and the run
\* is marked failed; no search, download, document-analysis or determination
\* call is issued, the step writes nothing to the Case, and the run returns
\* only after its one flush.
C25_NullQueryExpansionFailsTheRun ==
    NullQueryExpansion =>
        /\ loc.raised = "query_expansion"
        /\ pc \in {"except", "finally", "done"}
        /\ CallsAfterQueryExpansion = 0
        /\ DOMAIN CaseData \cap {"optimized_query", "policy_location",
                                 "policy_text", "final_determination"} = {}
        /\ Count("log_failure") = IF pc = "except" THEN 0 ELSE 1
        /\ pc # "except" => outcome = "failed"
        /\ Len(flushes) = IF pc = "done" THEN 1 ELSE 0
        /\ Returned => /\ Count("upsert") = 1
                       /\ LastCall.call = "upsert"
                       /\ flushes[1] = StoreOutputDoc(results, caseId)

C25_Witness ==
    /\ NullQueryExpansion
    /\ Returned
    /\ outcome = "failed"
    /\ Len(flushes) = 1
    /\ "raw_uploaded_files" \in DOMAIN flushes[1]
    /\ "patient_name" \in DOMAIN flushes[1]

BytesDownloads == { i \in Calls("download") : callLog[i].res = "bytes" }
\* the materialization stage is over when its calls are in the log and the
\* run has moved on
MaterializationFailedInside ==
    \E i \in DOMAIN callLog :
       \/ callLog[i].call = "download" /\ callLog[i].res \in {"None", "raise"}
       \/ callLog[i].call = "analyze" /\ callLog[i].res = "raise"

\* C26: a download that returns bytes is followed by exactly one
\* document-analysis request, on those bytes, with the layout model and
\* markdown output, and no analysis is requested otherwise; the content of a
\* successful analysis is the policy text handed to run(); a download or an
\* analysis that raises (or a download without bytes) yields the empty string:
\* nothing is raised out of get_policy_text_from_blob, run() goes on with the
\* empty text and logs it.
C26_OneLayoutAnalysisAndNoRaise ==
    /\ Count("download") <= 1
    /\ Count("analyze") = Cardinality(BytesDownloads)
    /\ \A i \in BytesDownloads :
          /\ i + 1 \in Calls("analyze")
          /\ callLog[i + 1].document_input = "bytes"
          /\ callLog[i + 1].model_type = "prebuilt-layout"
          /\ callLog[i + 1].output_format = "markdown"
          /\ callLog[i + 1].res = "ok" =>
                /\ loc.policy_text \in PolicyTexts
                /\ loc.raised # "materialization"
    /\ \A i \in Calls("download") :
          /\ ~IsSentinel(loc.policy_location)
          /\ callLog[i - 1].call = "search"
    /\ MaterializationFailedInside =>
          /\ loc.raised # "materialization"
          /\ loc.policy_text = ""
          /\ "policy_text" \in DOMAIN CaseData
          /\ "policy_location" \in DOMAIN CaseData
          /\ pc \notin {"located", "except"} \/ loc.raised = "determination"

C26_Witness ==
    /\ \E i \in Calls("analyze") : callLog[i].res = "raise"
    /\ loc.policy_text = ""
    /\ CaseData["policy_text"] = Val("str", "")
    /\ Returned
    /\ outcome = "completed"

\* the summarized retries that were answered with the sentinel
OverlongRetries ==
    { i \in Calls("primary") \cup Calls("secondary") :
        /\ callLog[i].prompt = "summary"
        /\ callLog[i].res = "maximum context length" }

\* C27: after a summarized retry answered with "maximum context length" no
\* summarization, determination call or fallback follows: the next thing the
\* run does is catch the exception at the run boundary.  On Path A no
\* secondary-backend call is ever made; on Path B the attempt counter stays
\* where it was (the remaining attempt is not used).  The run ends failed and
\* final_determination is never logged.
C27_SentinelOnSummarizedRetryFailsTheRun ==
    \A i \in OverlongRetries :
        /\ i - 1 \in Calls("summarize") /\ callLog[i - 1].res = "response"
        /\ \A j \in DOMAIN callLog :
              j > i => callLog[j].call \in {"log_failure", "upsert"}
        /\ i + 1 \in DOMAIN callLog =>
              callLog[i + 1] = Entry("log_failure", "determination")
        /\ loc.raised = "determination"
        /\ pc \in {"except", "finally", "done"}
        /\ pc # "except" => outcome = "failed" /\ Count("log_failure") = 1
        /\ ~HasFinalDetermination
        /\ loc.final_response = "unset"
        /\ callLog[i].call = "primary" =>
              /\ Count("secondary") = 0
              /\ loc.use_o1
              /\ Count("summarize") = 1
        /\ callLog[i].call = "secondary" =>
              /\ Cardinality(AttemptStarts) = loc.attempt
              /\ i - 2 = LastOf(AttemptStarts)
        /\ Returned => "final_determination" \notin DOMAIN flushes[1]

C27_Witness ==
    /\ Returned
    /\ outcome = "failed"
    /\ Count("primary") = 0
    /\ Count("secondary") = 2
    /\ loc.attempt = 1
    /\ OverlongRetries # {}
    /\ "summary_policy" \in DOMAIN flushes[1]

\* C28: the return of run() on an empty uploaded_files list is one step from
\* the idle pipeline to the returned one that changes nothing else: the case
\* id, the Case results, the conversation log, the issued calls (no stage, no
\* cleanup, no upsert or store_output warning) and the flushed documents are
\* what they were, and nothing happens afterwards.
C28_EmptyInputReturnsImmediately ==
    /\ [][(outcome' = "no_files") =>
            /\ pc = "idle" /\ pc' = "done"
            /\ caseId' = caseId
            /\ results' = results
            /\ conversation_history' = conversation_history
            /\ callLog' = callLog
            /\ flushes' = flushes
            /\ ext' = ext /\ extRet' = extRet /\ loc' = loc]_vars
    /\ [](outcome = "no_files" =>
            /\ Returned
            /\ caseId = "case-1"
            /\ results = EmptyMap
            /\ conversation_history = << >>
            /\ callLog = << >>
            /\ flushes = << >>)

C28_Witness ==
    /\ Returned
    /\ outcome = "no_files"
    /\ callLog = << >>
    /\ flushes = << >>

RunPositions == {"idle", "except", "finally", "store_output", "done"}

\* C29: no step of run() leaves it by an exception.  An exception of a stage
\* takes the run to the except clause, where it is logged once, then to the
\* teardown; the teardown goes from the cleanup to store_output and from
\* store_output to the return of run(), whether the cleanup or the upsert
\* raised or not; a failed upsert changes neither the outcome of the run nor
\* the Case.
C29_RunNeverPropagates ==
    /\ [](pc \in RunPositions)
    /\ [](loc.raised # "none" =>
            /\ pc \in {"except", "finally", "store_output", "done"}
            /\ Count("log_failure") = IF pc = "except" THEN 0 ELSE 1
            /\ pc # "except" => outcome = "failed")
    /\ [](loc.raised = "none" => Count("log_failure") = 0 /\ outcome # "failed")
    /\ [][(pc = "except") => (pc' = "finally")]_vars
    /\ [][(pc = "finally") => (pc' = "store_output")]_vars
    /\ [][(pc = "store_output") =>
            /\ pc' = "done"
            /\ outcome' = outcome
            /\ results' = results
            /\ Len(flushes') = 1]_vars
    /\ []((loc.cleanup = "raised" /\ pc = "done") => Len(flushes) = 1)
    /\ [](loc.upsert # "none" => Returned)

C29_Witness ==
    /\ Returned
    /\ loc.raised = "determination"
    /\ loc.cleanup = "raised"
    /\ loc.upsert = "raised"
    /\ outcome = "failed"
    /\ Len(flushes) = 1
    /\ flushes[1] # EmptyMap

HasPolicyLocation == "policy_location" \in DOMAIN CaseData
HasPolicyText == "policy_text" \in DOMAIN CaseData

FailedPaths == { p \in Paths : ext[p] \in {"failed", "rejected"} }

\* C31: an extraction path that failed, because the backend raised or
\* answered with a string or because the validator raised, has merged nothing
\* into the Case and appended no conversation entry, in the step that failed
\* and ever after; its all-default record exists only as the value returned
\* to the pipeline, and the flushed document has none of the path's fields.
C31_FailedPathLeavesNoTrace ==
    /\ [](\A p \in FailedPaths :
            /\ NothingMerged(p)
            /\ extRet[p] = AllDefaultRecord(p)
            /\ Len(flushes) = 1 =>
                  \A n \in DOMAIN AllDefaultRecord(p) : n \notin DOMAIN flushes[1])
    /\ [][(FailedPaths' # FailedPaths) =>
            /\ results' = results
            /\ conversation_history' = conversation_history]_vars

C31_Witness ==
    /\ Returned
    /\ ext["patient"] = "failed"
    /\ ext["clinician"] = "rejected"
    /\ ext["physician"] = "ok"
    /\ outcome = "completed"
    /\ DOMAIN flushes[1] \cap {"patient_name", "diagnosis", "treatment_request"} = {}
    /\ "physician_name" \in DOMAIN flushes[1]
    /\ conversation_history[1] = "physician_information_extraction"

\* C32: whatever the backends answer, one run issues at most 2
\* primary-backend calls, at most 2 secondary-backend calls in each of the
\* max_retries attempts of Path B (4 in all) and at most one summarization
\* sub-call on Path A and one in each attempt of Path B (3 in all).
C32_DeterminationCallsAreBounded ==
    /\ Count("primary") <= 2
    /\ Count("secondary") <= 2 * max_retries
    /\ Count("secondary") <= 4
    /\ Count("summarize") <= 1 + max_retries
    /\ Count("summarize") <= 3
    /\ Cardinality(AttemptStarts) <= max_retries
    /\ Cardinality(PathASummaries) <= 1

C32_Witness ==
    /\ Count("primary") = 2
    /\ Count("secondary") = 4
    /\ Count("summarize") = 3
    /\ Returned

PathNotFound == loc.policy_location = "Path not found"
BeforeMaterialization ==
    {"idle", "process_uploaded_files", "extract", "query_expansion",
     "locate_policy", "located"}

\* C33: when the first-ranked search hit has no parent-path attribute,
\* locate_policy returns "Path not found"; run() does not take it for a
\* sentinel: the run is never silently stopped, its next step is the
\* materialization with a download, and the determination stage is entered
\* with "Path not found" logged as policy_location (the text is whatever the
\* materialization handed back; the only other way out of the materialization
\* is the missing text that run() raises on for any location).
C33_PathNotFoundIsNotASentinel ==
    /\ []((/\ pc = "located"
           /\ loc.searched = "returned"
           /\ Len(loc.hits) >= 1
           /\ DOMAIN loc.hits[1] # {}
           /\ "parent_path" \notin DOMAIN loc.hits[1]) => PathNotFound)
    /\ [](PathNotFound =>
            /\ outcome # "stopped"
            /\ pc \notin BeforeMaterialization \ {"located"}
            /\ pc # "located" => Count("download") = 1
            /\ (pc # "located" /\ loc.raised # "materialization") =>
                  /\ CaseData["policy_location"] = Val("str", "Path not found")
                  /\ CaseData["policy_text"] = Val("str", loc.policy_text)
                  /\ Count("primary") + Count("secondary") >= 1
                        \/ pc \in {"primary", "secondary"})
    /\ [][(PathNotFound /\ pc = "located") =>
            /\ pc' \in {"primary", "secondary", "except"}
            /\ Count("download")' = 1
            /\ pc' = "except" =>
                  /\ loc'.raised = "materialization"
                  /\ LastCall'.call = "analyze" /\ LastCall'.res = "no_content"]_vars

C33_Witness ==
    /\ PathNotFound
    /\ Returned
    /\ outcome = "completed"
    /\ CaseData["policy_location"] = Val("str", "Path not found")
    /\ flushes[1]["policy_location"] = Val("str", "Path not found")
    /\ HasFinalDetermination

OkPaths == { p \in Paths : ext[p] = "ok" }
\* the Case after the extraction stage as a function of what the three paths
\* returned, whatever the order they completed in
ExtractedKeys == UNION { DOMAIN extRet[p] : p \in OkPaths }
UploadKeys == {"raw_uploaded_files", "processed_images"}
\* the steps of the conversation log, in the order of the log
IsPermutationOfOkSteps(h) ==
    /\ Len(h) = Cardinality(OkPaths)
    /\ \A p \in OkPaths : \E i \in DOMAIN h : h[i] = StepOf(p)

\* C34: after the extraction stage the Case holds, next to the upload keys,
\* exactly the records the paths returned, each field with the value its
\* path returned: a function of the three results alone, so the same for
\* every completion order (the merges commute).  Each completing path appends
\* its entry at the end of the conversation log, so the log lists the paths
\* in the order they completed.
C34_MergesCommuteLogKeepsCompletionOrder ==
    /\ [](pc \in {"extract", "query_expansion"} =>
            /\ DOMAIN CaseData \ UploadKeys = ExtractedKeys
            /\ \A p \in OkPaths : \A n \in DOMAIN extRet[p] :
                  n \in DOMAIN CaseData /\ CaseData[n] = extRet[p][n]
            /\ IsPermutationOfOkSteps(conversation_history))
    /\ [][(pc = "extract" /\ OkPaths' # OkPaths) =>
            \E p \in Paths :
               /\ OkPaths' = OkPaths \cup {p} /\ p \notin OkPaths
               /\ conversation_history' = Append(conversation_history, StepOf(p))
               /\ \A n \in DOMAIN CaseData :
                     n \in DOMAIN CaseData' /\ CaseData'[n] = CaseData[n]]_vars

C34_Witness ==
    /\ pc = "query_expansion"
    /\ conversation_history = << "clinical_information_extraction",
                                  "patient_information_extraction",
                                  "physician_information_extraction" >>
    /\ CaseData["patient_name"] = extRet["patient"]["patient_name"]
    /\ CaseData["diagnosis"] = extRet["clinician"]["diagnosis"]
    /\ CaseData["physician_name"] = extRet["physician"]["physician_name"]

UploadReturned ==
    /\ pc \notin {"idle", "process_uploaded_files"}
    /\ outcome # "no_files"
    /\ loc.raised # "process_uploaded_files"

\* C35: once run() has passed the empty-input guard and the upload step has
\* returned, the Case holds raw_uploaded_files, before the extractions are
\* launched and ever after; so the flush finds data to store: the document it
\* hands to the durable store is not empty, carries that key, and the "no
\* results to store" warning is never issued.
C35_UploadEntryMakesFlushNonEmpty ==
    /\ [](UploadReturned =>
            /\ "raw_uploaded_files" \in DOMAIN CaseData
            /\ Returned =>
                  /\ flushes[1] # EmptyMap
                  /\ "raw_uploaded_files" \in DOMAIN flushes[1]
                  /\ Count("upsert") = 1
                  /\ Count("warning") = 0)
    /\ [](Count("warning") > 0 => loc.raised = "process_uploaded_files")
    /\ [][(pc = "process_uploaded_files" /\ pc' = "extract") =>
            /\ "raw_uploaded_files" \in DOMAIN CaseData'
            /\ \A p \in Paths : ext[p] = "idle" /\ ext'[p] = "running"]_vars

C35_Witness ==
    /\ Returned
    /\ loc.raised = "image_extraction"
    /\ CaseData = ("raw_uploaded_files" :> Val("list", "[]"))
    /\ Count("upsert") = 1
    /\ flushes[1]["raw_uploaded_files"] = Val("list", "[]")

OtherCases == DOMAIN results \ {caseId}

\* C36: store_output changes nothing in memory: the accumulator and the
\* conversation log are what they were, and no case's mapping ever holds a
\* caseId key.  What it hands to the durable store is the current case's
\* mapping with the caseId field added, in one upsert for the current case
\* id; the entries held under other case ids stay in the accumulator and are
\* not written.
C36_StoreOutputCopiesCurrentCaseOnly ==
    /\ [](\A c \in DOMAIN results : "caseId" \notin DOMAIN results[c])
    /\ [][(Len(flushes') = Len(flushes) + 1) =>
            /\ results' = results
            /\ conversation_history' = conversation_history
            /\ caseId' = caseId
            /\ \A c \in OtherCases : c \in DOMAIN results' /\ results'[c] = results[c]
            /\ (caseId \in DOMAIN results /\ DOMAIN results[caseId] # {}) =>
                  /\ DOMAIN flushes'[Len(flushes')] = DOMAIN results[caseId] \cup {"caseId"}
                  /\ \A k \in DOMAIN results[caseId] :
                        flushes'[Len(flushes')][k] = results[caseId][k]
                  /\ flushes'[Len(flushes')]["caseId"] = Val("str", caseId)
                  /\ Count("upsert")' = Count("upsert") + 1
                  /\ \A i \in Calls("upsert")' : i > Len(callLog) => callLog'[i].res = caseId
            /\ ~(caseId \in DOMAIN results /\ DOMAIN results[caseId] # {}) =>
                  /\ flushes'[Len(flushes')] = EmptyMap
                  /\ Count("upsert")' = Count("upsert")]_vars

C36_Witness ==
    /\ caseId = "case-1"
    /\ DOMAIN results = {"case-1", "case-2"}
    /\ results["case-1"] = ("a" :> Val("str", "x"))
    /\ results["case-2"] = ("a" :> Val("str", "y") @@ "b" :> Val("str", "z"))
    /\ Len(flushes) = 1
    /\ flushes[1] = ("a" :> Val("str", "x") @@ "caseId" :> Val("str", "case-1"))
    /\ Count("upsert") = 1

IsPrefix(s, t) == Len(s) <= Len(t) /\ \A i \in DOMAIN s : t[i] = s[i]
StoredFlushes == { i \in DOMAIN flushes : flushes[i] # EmptyMap }

\* C37: no step removes a case, a key of a case or an entry of the
\* conversation log, a new call of run() included; so of two documents
\* flushed for the same case id the later one has every key of the earlier
\* one.
C37_AccumulatorIsNeverReset ==
    /\ [][/\ \A c \in DOMAIN results :
               /\ c \in DOMAIN results'
               /\ DOMAIN results[c] \subseteq DOMAIN results'[c]
          /\ IsPrefix(conversation_history, conversation_history')]_vars
    /\ [](\A i, j \in StoredFlushes :
            (i < j /\ flushes[i]["caseId"] = flushes[j]["caseId"]) =>
                DOMAIN flushes[i] \subseteq DOMAIN flushes[j])

\* a completed run followed by a silently stopped one that logged only its
\* query expansion
C37_Witness ==
    /\ Returned
    /\ outcome = "stopped"
    /\ Len(flushes) = 2
    /\ DOMAIN flushes[1] = {"final_determination", "caseId"}
    /\ DOMAIN flushes[2] = {"final_determination", "optimized_query", "caseId"}
    /\ flushes[2]["final_determination"] = flushes[1]["final_determination"]
    /\ flushes[1]["caseId"] = flushes[2]["caseId"]

ImageUploads == { i \in Calls("upload") : callLog[i].res = "processed_images" }
\* the input files whose images were uploaded
FilesWithImages == { loc.image_files[i][1] : i \in DOMAIN loc.image_files }

\* C38: each call of upload_files_to_blob replaces the entry of its step:
\* at every moment processed_images is the URL list of the latest image
\* upload, whatever earlier calls produced, and it is absent while no image
\* was uploaded; the other entries of the Case are untouched.  So when
\* several input files yielded images the entry lists the images of the last
\* such file only, while the list handed back to run() has those of every
\* file.
C38_UploadReplacesStepEntry ==
    /\ [](IF ImageUploads = {}
          THEN "processed_images" \notin DOMAIN CaseData
          ELSE /\ "processed_images" \in DOMAIN CaseData
               /\ CaseData["processed_images"] =
                     Val("list", callLog[LastOf(ImageUploads)].remote_files))
    /\ []((pc = "uploaded" /\ Cardinality(FilesWithImages) >= 2) =>
            \A i \in DOMAIN CaseData["processed_images"].v :
               CaseData["processed_images"].v[i].name[1] = loc.image_files[Len(loc.image_files)][1])
    /\ [][(ImageUploads' # ImageUploads) =>
            /\ CaseData'["raw_uploaded_files"] = CaseData["raw_uploaded_files"]
            /\ Len(CaseData'["processed_images"].v) <= MaxImages]_vars

C38_Witness ==
    /\ pc = "uploaded"
    /\ Len(loc.image_files) = 4
    /\ Cardinality(ImageUploads) = 2
    /\ CaseData["processed_images"] =
          Val("list", << FullUrl("processed_images", << 2, 1 >>),
                         FullUrl("processed_images", << 2, 2 >>) >>)

\* ---------------------------------------------------------------------
\* C39: analyze_document dispatches on its input and issues at most one
\* analysis request: bytes go out as a byte source; an http:// URL raises
\* ValueError with no request, download or file read issued; an https URL
\* containing blob.core.windows.net is downloaded first and what the
\* download gave goes out as a byte source (no request when the download
\* raises); any other https URL goes out as a URL source; any other string
\* is opened as a local file and its content goes out as a byte source; a
\* request made with no output format supplied asks for "text".
AnalysisRequests == Calls("begin_analyze_document")
RequestIs(i, source) ==
    /\ AnalysisRequests = {i}
    /\ callLog[i].source = source
C39_AnalyzeDocumentDispatches ==
    (pc # "idle" /\ callLog # << >> /\ callLog[1].call = "analyze_document") =>
        LET call == callLog[1]
            input == call.document_input
            https == ~input.bytes /\ input.text[1] = "https://"
            blob == \E i \in DOMAIN input.text :
                        input.text[i] = "blob.core.windows.net"
        IN  /\ Cardinality(AnalysisRequests) <= 1
            /\ \A i \in AnalysisRequests :
                  /\ callLog[i].model_id = call.model_type
                  /\ (call.output_format = "None") =>
                        (callLog[i].output_content_format = "text")
            /\ input.bytes =>
                  /\ Len(callLog) = 2
                  /\ RequestIs(2, "bytes_source")
            /\ (~input.bytes /\ input.text[1] = "http://") =>
                  /\ Len(callLog) = 1
                  /\ call.res = "ValueError"
                  /\ pc = "raised"
            /\ (https /\ blob) =>
                  /\ Len(callLog) >= 2
                  /\ callLog[2].call = "download"
                  /\ Count("open") = 0
                  /\ IF callLog[2].res = "raise"
                     THEN Len(callLog) = 2 /\ pc = "raised"
                     ELSE Len(callLog) = 3 /\ RequestIs(3, "bytes_source")
            /\ (https /\ ~blob) =>
                  /\ Len(callLog) = 2
                  /\ RequestIs(2, "url_source")
            /\ (~input.bytes /\ input.text[1] \notin {"http://", "https://"}) =>
                  /\ Len(callLog) >= 2
                  /\ callLog[2].call = "open"
                  /\ Count("download") = 0
                  /\ IF callLog[2].res = "raise"
                     THEN Len(callLog) = 2 /\ pc = "raised"
                     ELSE Len(callLog) = 3 /\ RequestIs(3, "bytes_source")

\* a blob URL with no output format: downloaded, then analysed as bytes in
\* "text" format, and the result returned
C39_Witness ==
    /\ pc = "returned"
    /\ Len(callLog) = 3
    /\ callLog[1].call = "analyze_document"
    /\ callLog[1].document_input =
          [bytes |-> FALSE, text |-> << "https://", "blob.core.windows.net" >>]
    /\ callLog[1].output_format = "None"
    /\ callLog[2] = Entry("download", "bytes")
    /\ callLog[3].call = "begin_analyze_document"
    /\ callLog[3].source = "bytes_source"
    /\ callLog[3].output_content_format = "text"

====
